---- MODULE Spec2Model ----
(***************************************************************************)
(* Model of the browser client of Anthony's Musings:                       *)
(*   - APIClient.makeRequest (api.js): fetch with abort timer, retry loop  *)
(*     and linear back-off;                                                *)
(*   - MusingsApp (main.js): page navigation, explicit-content gate, page  *)
(*     data loads, content warning overlay, quick-search debounce;         *)
(*   - the connection monitor (api.js): the 30 s poll of /health;          *)
(*   - the renderers (main.js, components/): escaping, excerpt, body       *)
(*     formatting, cards, full view, tag cloud, as functions on strings.   *)
(* Times are in milliseconds.  The DOM elements the code looks up by id    *)
(* are taken to exist (the markup is not part of the scripts).             *)
(***************************************************************************)
EXTENDS Integers, Sequences, FiniteSets, TLC

(***************************************************************************)
(* Part 1.  APIClient.makeRequest                                          *)
(***************************************************************************)

\* api.js:7-9, APIClient.constructor
timeout == 10000
retryAttempts == 3
retryDelay == 1000

\* Granularity of the clock of the API model: time advances in steps of
\* ApiQuantum ms; a timer is due once its remaining time has reached 0.
ApiQuantum == 1000

\* makeRequest calls of the model.  Solo is the call the runs of one call
\* make; the runs of concurrent calls make every call of Calls.
Calls == {1, 2}
Solo == {1}

\* HTTP statuses a fetch may answer with; OkStatus is response.ok.
Statuses == {200, 404, 500}
OkStatus(status) == status >= 200 /\ status <= 299

Max(a, b) == IF a >= b THEN a ELSE b

\* api.js:476, the period of connectionCheckInterval
pollInterval == 30000

\* main.js:32-34, 63-65: the delays of the timers of the loading screen.
hideDelay == 3000
fadeDelay == 500

\* Granularity of the clock of the start-up, in ms.
StartQuantum == 500

\* Granularity of the clock of the connection monitor, in ms.
MonitorQuantum == 10000

\* Interval callbacks of one run.
MaxPolls == 4

\* How a fetch('/health') may end: a response with some status, or a
\* rejection (network error).
ProbeEnds ==
    [kind : {"response"}, status : Statuses] \cup {[kind |-> "network", status |-> 0]}
NoProbe == [kind |-> "none", status |-> 0]

\* The renderers of the model: the card excerpt, formatContentForDisplay,
\* createContentCard, displayContent, the list container of
\* displayRecentContent and the tag cloud.
Renderers == {"excerpt", "body", "card", "view", "list", "tagCloud"}

VARIABLES
    \* APIClient
    calls,                  \* per makeRequest call: position in the retry loop and its timers
    \* MusingsApp fields (main.js:5-8)
    currentPage,            \* this.currentPage
    explicitContentEnabled, \* this.explicitContentEnabled, the gate
    currentContent,         \* this.currentContent: item awaiting confirmation, 0 for null
    \* DOM
    activePages,            \* .page elements carrying the class "active"
    warningHidden,          \* #contentWarning carries the class "hidden"
    recentContent,          \* cards in #recentContent and the load that rendered them
    dashStats,              \* load whose statistics the dashboard shows, 0 for none
    browseContent,          \* cards in #browseContent
    searchResultsContainer, \* cards in #searchResultsContainer
    contentDisplay,         \* full view in #contentDisplay
    notices,                \* error notices visible in the document
    \* event loop
    loads,                  \* page loads awaiting an API response; `toggle` is the gate
                            \* value set by the toggle click that started the load
    nextLoad,               \* number of page loads started so far
    lastDash,               \* the latest loadDashboardData call, how it ended and the
                            \* explicit items the server returned for it
    lastBrowse,             \* the same for the latest loadBrowseContent call
    errorLog,               \* latest message passed to showError (console.error), "" for none
    navRejected,            \* the promise of the latest navigateToPage call was rejected
    \* quick search (main.js:128-174, 425-469)
    searchInputValue,       \* value of #searchInput
    searchTimeout,          \* this.searchTimeout: 0 for null, 1 for a timer handle
    debounceTimers,         \* pending timers set by the input handler
    quickLoads,             \* queries of the quick searches awaiting a response
    searchResults,          \* content of #searchResults
    searchResultsHidden,    \* #searchResults carries the class "hidden"
    sinceKey,               \* ms since the latest input event (capped at the debounce delay)
    burst,                  \* the current run of input events less than 300 ms apart
    lastRequest,            \* query of the latest quick-search request
    focused,                \* #searchInput has the keyboard focus
    blurTimers,             \* pending timers set by the blur handler
    advancedQuery,          \* query navigateToSearch was last called with: the value
                            \* it wrote to #advancedSearch and searched for
    \* connection monitor (api.js:457-482)
    statusText,             \* textContent of .status-text
    intervalLeft,           \* ms until the next callback of connectionCheckInterval
    polls,                  \* number of interval callbacks run so far
    probes,                 \* callbacks whose fetch('/health') is pending
    lastProbe,              \* how the fetch('/health') that ended last ended
    \* renderers
    subject,                \* the value the renderers are applied to
    markup,                 \* per renderer, the markup it produced last
    renders,                \* per renderer, the number of times it has run
    \* start-up (main.js:15-35, 60-66)
    initPc,                 \* the await or timer MusingsApp.init is at
    startLog,               \* how the loads init has awaited ended
    loadingScreen,          \* #loading-screen: "shown", "fading" (opacity 0), "gone"
    hideLeft                \* ms left of the pending timer of the loading screen

apiVars == <<calls>>
uiVars == <<currentPage, explicitContentEnabled, currentContent, activePages,
            warningHidden, recentContent, dashStats, browseContent,
            searchResultsContainer, contentDisplay, notices, loads, nextLoad,
            lastDash, lastBrowse, errorLog, navRejected>>
searchVars == <<searchInputValue, searchTimeout, debounceTimers, quickLoads,
                searchResults, searchResultsHidden, sinceKey, burst, lastRequest,
                focused, blurTimers, advancedQuery>>
monitorVars == <<statusText, intervalLeft, polls, probes, lastProbe>>
renderVars == <<subject, markup, renders>>
startVars == <<initPc, startLog, loadingScreen, hideLeft>>
vars == <<apiVars, uiVars, searchVars, monitorVars, renderVars, startVars>>
nonApiVars == <<uiVars, searchVars, monitorVars, renderVars, startVars>>
nonUiVars == <<apiVars, searchVars, monitorVars, renderVars, startVars>>
nonSearchVars == <<apiVars, uiVars, monitorVars, renderVars, startVars>>
nonMonitorVars == <<apiVars, uiVars, searchVars, renderVars, startVars>>
nonRenderVars == <<apiVars, uiVars, searchVars, monitorVars, startVars>>
nonApiStartVars == <<uiVars, searchVars, monitorVars, renderVars>>

NoResult == [kind |-> "none", n |-> 0, status |-> 0, data |-> "none", late |-> FALSE]

\* State of a call that has not been made yet.
IdleCall ==
    [pc |-> "idle",          \* idle | fetching | delaying | resolved | rejected
     attempt |-> 0,          \* loop variable `attempt`
     log |-> <<>>,           \* outcome of every attempt made so far, in order
     timer |-> 0,            \* ms left on the abort timer of the attempt in flight
     elapsed |-> 0,          \* ms since the fetch of the attempt in flight started
     delayLeft |-> 0,        \* ms left of the pending this.delay(...)
     delayArmed |-> 0,       \* argument of the latest this.delay(...) call
     dangling |-> {},        \* attempts whose abort timer was never cleared
     result |-> NoResult]    \* value the call resolved with / error it rejected with

\* Variant of BackoffDelay: the same delay after every failed attempt.
BackoffDelay_Constant(attempt) == retryDelay

\* api.js:71, the argument of this.delay after failed attempt `attempt`
BackoffDelay(attempt) == retryDelay * attempt

\* api.js:36-46: one turn of the for loop up to the pending fetch: a fresh
\* AbortController and a fresh abort timer of this.timeout ms.
BeginAttempt(r, n) ==
    [r EXCEPT !.pc = "fetching", !.attempt = n, !.timer = timeout, !.elapsed = 0,
              !.delayLeft = 0]

\* Variant of CatchBlock: the budget test is off by one (rethrows after the
\* attempt before the last).
CatchBlock_OffByOne(r, err) ==
    LET logged == [r EXCEPT !.log = Append(@, err), !.timer = 0, !.elapsed = 0]
    IN  IF r.attempt >= retryAttempts - 1
        THEN [logged EXCEPT !.pc = "rejected", !.result = err]
        ELSE [logged EXCEPT !.pc = "delaying",
                            !.delayLeft = BackoffDelay(r.attempt),
                            !.delayArmed = BackoffDelay(r.attempt)]

\* Variant of CatchBlock: client errors (4xx) are rethrown at once.
CatchBlock_NoRetry4xx(r, err) ==
    LET logged == [r EXCEPT !.log = Append(@, err), !.timer = 0, !.elapsed = 0]
    IN  IF r.attempt = retryAttempts
           \/ (err.kind = "http" /\ err.status >= 400 /\ err.status <= 499)
        THEN [logged EXCEPT !.pc = "rejected", !.result = err]
        ELSE [logged EXCEPT !.pc = "delaying",
                            !.delayLeft = BackoffDelay(r.attempt),
                            !.delayArmed = BackoffDelay(r.attempt)]

\* api.js:63-72, the catch block: the last attempt rethrows, an earlier one
\* waits retryDelay * attempt and lets the loop go on.
CatchBlock(r, err) ==
    LET logged == [r EXCEPT !.log = Append(@, err), !.timer = 0, !.elapsed = 0]
    IN  IF r.attempt = retryAttempts
        THEN [logged EXCEPT !.pc = "rejected", !.result = err]
        ELSE [logged EXCEPT !.pc = "delaying",
                            !.delayLeft = BackoffDelay(r.attempt),
                            !.delayArmed = BackoffDelay(r.attempt)]

\* An attempt's outcome: its number, its kind, the HTTP status and body it
\* carries, and whether it came when the abort timer was already due.
Outcome(r, kind, status, data) ==
    [kind |-> kind, n |-> r.attempt, status |-> status, data |-> data,
     late |-> r.elapsed >= timeout]

\* api.js:18-36: the call enters the loop with attempt = 1.
MakeRequest(c) ==
    /\ calls[c].pc = "idle"
    /\ calls' = [calls EXCEPT ![c] = BeginAttempt(@, 1)]
    /\ UNCHANGED nonApiVars

\* Variant of FetchResponse: the body of a non-2xx answer is parsed without
\* the .catch(() => ({})), so its SyntaxError is what the attempt fails with.
FetchResponse_ParseSurfaces(c, status, jsonOk) ==
    LET r == calls[c] IN
    /\ r.pc = "fetching"
    /\ calls' = [calls EXCEPT ![c] =
          IF ~jsonOk
          THEN CatchBlock(r, Outcome(r, "parse", status, "none"))
          ELSE IF ~OkStatus(status)
               THEN CatchBlock(r, Outcome(r, "http", status, "body"))
               ELSE [r EXCEPT !.pc = "resolved", !.timer = 0, !.elapsed = 0,
                              !.log = Append(@, Outcome(r, "ok", status, "body")),
                              !.result = Outcome(r, "ok", status, "body")]]
    /\ UNCHANGED nonApiVars

\* api.js:43-61: fetch answers with `status`; the abort timer is cleared; a
\* non-2xx answer throws an APIError with the parsed body ({} when the body
\* is no JSON), a 2xx answer returns the parsed body (a SyntaxError of
\* response.json() is thrown into the catch block).
FetchResponse(c, status, jsonOk) ==
    LET r == calls[c] IN
    /\ r.pc = "fetching"
    /\ calls' = [calls EXCEPT ![c] =
          IF ~OkStatus(status)
          THEN CatchBlock(r, Outcome(r, "http", status,
                                     IF jsonOk THEN "body" ELSE "empty"))
          ELSE IF jsonOk
               THEN [r EXCEPT !.pc = "resolved", !.timer = 0, !.elapsed = 0,
                              !.log = Append(@, Outcome(r, "ok", status, "body")),
                              !.result = Outcome(r, "ok", status, "body")]
               ELSE CatchBlock(r, Outcome(r, "parse", status, "none"))]
    /\ UNCHANGED nonApiVars

\* api.js:43,63: fetch rejects (connection refused, DNS, ...).  Line 48 is
\* skipped, so the attempt's abort timer stays armed.
FetchNetworkError(c) ==
    LET r == calls[c] IN
    /\ r.pc = "fetching"
    /\ calls' = [calls EXCEPT ![c] =
          [CatchBlock(r, Outcome(r, "network", 0, "none"))
              EXCEPT !.dangling = @ \cup {r.attempt}]]
    /\ UNCHANGED nonApiVars

\* Variant of FetchAbort: controller.abort() runs without waiting for the
\* timer (setTimeout given the call's result instead of a callback).
FetchAbort_Immediate(c) ==
    LET r == calls[c] IN
    /\ r.pc = "fetching"
    /\ calls' = [calls EXCEPT ![c] = CatchBlock(r, Outcome(r, "timeout", 0, "none"))]
    /\ UNCHANGED nonApiVars

\* Variant of FetchAbort: one AbortController is shared by the client, so
\* the abort of one call's attempt aborts every fetch in flight.
FetchAbort_SharedController(c) ==
    LET r == calls[c] IN
    /\ r.pc = "fetching"
    /\ r.timer = 0
    /\ calls' = [d \in Calls |->
          IF calls[d].pc = "fetching"
          THEN CatchBlock(calls[d], Outcome(calls[d], "timeout", 0, "none"))
          ELSE calls[d]]
    /\ UNCHANGED nonApiVars

\* api.js:41: the abort timer of the attempt in flight fires; fetch rejects
\* with an AbortError, which the catch block treats like any other error.
FetchAbort(c) ==
    LET r == calls[c] IN
    /\ r.pc = "fetching"
    /\ r.timer = 0
    /\ calls' = [calls EXCEPT ![c] = CatchBlock(r, Outcome(r, "timeout", 0, "none"))]
    /\ UNCHANGED nonApiVars

\* api.js:41: an abort timer left armed by a network error fires; its
\* controller belongs to a fetch that is over, so nothing happens.
StaleTimerFires(c, a) ==
    /\ a \in calls[c].dangling
    /\ calls' = [calls EXCEPT ![c].dangling = @ \ {a}]
    /\ UNCHANGED nonApiVars

\* api.js:71,76-78,36: the back-off delay is over, the loop increments
\* attempt and fetches again.
DelayDone(c) ==
    LET r == calls[c] IN
    /\ r.pc = "delaying"
    /\ r.delayLeft = 0
    /\ calls' = [calls EXCEPT ![c] = BeginAttempt(r, r.attempt + 1)]
    /\ UNCHANGED nonApiVars

\* ApiQuantum ms pass.  Timers fire when due: time does not pass over a due
\* abort timer or a finished delay.
TickApi ==
    /\ \E c \in Calls : calls[c].pc \in {"fetching", "delaying"}
    /\ \A c \in Calls :
          /\ calls[c].pc = "fetching" => calls[c].timer > 0
          /\ calls[c].pc = "delaying" => calls[c].delayLeft > 0
    /\ calls' = [c \in Calls |->
          LET r == calls[c] IN
          CASE r.pc = "fetching" ->
                  [r EXCEPT !.timer = Max(0, @ - ApiQuantum),
                            !.elapsed = @ + ApiQuantum]
            [] r.pc = "delaying" ->
                  [r EXCEPT !.delayLeft = Max(0, @ - ApiQuantum)]
            [] OTHER -> r]
    /\ UNCHANGED nonApiVars

InitApi == calls = [c \in Calls |-> IdleCall]

NextApi ==
    \/ \E c \in Solo : MakeRequest(c)
    \/ \E c \in Solo, status \in Statuses, jsonOk \in BOOLEAN :
          FetchResponse(c, status, jsonOk)
    \/ \E c \in Solo : FetchNetworkError(c)
    \/ \E c \in Solo : FetchAbort(c)
    \/ \E c \in Solo, a \in 1..retryAttempts : StaleTimerFires(c, a)
    \/ \E c \in Solo : DelayDone(c)
    \/ TickApi

\* Answers of the server in the runs of concurrent calls.
PairStatuses == {200, 500}

\* Concurrent calls: every call of Calls runs the retry loop of api.js:18-74
\* on its own; an attempt ends with an answer or with its abort timer.
NextPair ==
    \/ \E c \in Calls : MakeRequest(c)
    \/ \E c \in Calls, status \in PairStatuses : FetchResponse(c, status, TRUE)
    \/ \E c \in Calls : FetchAbort(c)
    \/ \E c \in Calls : DelayDone(c)
    \/ TickApi

(***************************************************************************)
(* Part 2.  MusingsApp: navigation, gate, page loads, content viewer       *)
(***************************************************************************)

\* Page loads (calls of a page loader or of a search) started in one run.
MaxLoads == 3

\* Page views (elements of class "page") and those a nav link leads to.
Pages == {"dashboard", "browse", "search", "tags", "analytics", "content-viewer"}
NavPages == Pages \ {"content-viewer"}

\* Content items the server holds; item.explicit_content; item.title.
Items == {1, 2, 3}
Explicit == {2, 3}
Title(i) == IF i = 1 THEN "a" ELSE "b"

\* What the archive may hold when a request is served.
Catalogues == {{}, {1, 2, 3}}

\* Item lists the server may answer a list or search request with: the
\* archive's items, without the explicit ones unless the request asked for
\* them (api.js:119, api.js:201).
ServerItems(explicit) ==
    {IF explicit THEN S ELSE S \ Explicit : S \in Catalogues}

\* results.items.find(i => i.title === ...): the first item with the title
\* (lists are kept in the order of the item numbers).
FindByTitle(items, t) ==
    CHOOSE i \in items : Title(i) = t /\ \A j \in items : Title(j) = t => i <= j

DashboardKinds == {"stats", "recent"}

\* Variant of showPage: the views are not deactivated before the target is
\* activated.
showPage_KeepActive(page) ==
    /\ activePages' = activePages \cup {page}
    /\ currentPage' = page

\* Variant of showPage: currentPage is not updated.
showPage_NoCurrent(page) ==
    /\ activePages' = {page}
    /\ UNCHANGED currentPage

\* main.js:227-237: remove "active" from every page view, add it to the
\* target, set currentPage.
showPage(page) ==
    /\ activePages' = {page}
    /\ currentPage' = page

\* The gate value set by the toggle click that calls a page loader, given
\* the gate value `gate` at the call: "none" for a call made by another
\* handler, which leaves the gate as it is.
ToggleOf(gate) ==
    IF gate = explicitContentEnabled THEN "none" ELSE IF gate THEN "on" ELSE "off"

\* main.js:259-262: loadDashboardData up to its first await (the statistics
\* request, which has no explicit parameter).  `race` notes a call made by
\* navigating from browse back to the dashboard while an earlier dashboard
\* load is still in flight, `gate` is the gate value at the call.
StartDashboardLoad(race, gate) ==
    /\ nextLoad < MaxLoads
    /\ nextLoad' = nextLoad + 1
    /\ loads' = loads \cup {[id |-> nextLoad + 1, kind |-> "stats", explicit |-> FALSE,
                             toggle |-> ToggleOf(gate)]}
    /\ lastDash' = [id |-> nextLoad + 1, state |-> "pending", race |-> race, got |-> {}]
    /\ UNCHANGED lastBrowse

\* main.js:545-550: loadBrowseContent up to its await; the request carries
\* the gate value `gate` read at the call.
StartBrowseLoad(gate) ==
    /\ nextLoad < MaxLoads
    /\ nextLoad' = nextLoad + 1
    /\ loads' = loads \cup {[id |-> nextLoad + 1, kind |-> "browse", explicit |-> gate,
                             toggle |-> ToggleOf(gate)]}
    /\ lastBrowse' = [id |-> nextLoad + 1, state |-> "pending", got |-> {}]
    /\ UNCHANGED lastDash

\* main.js:480-486: performAdvancedSearch up to its await.
StartAdvancedSearch ==
    /\ nextLoad < MaxLoads
    /\ nextLoad' = nextLoad + 1
    /\ loads' = loads \cup {[id |-> nextLoad + 1, kind |-> "advanced",
                             explicit |-> explicitContentEnabled, toggle |-> "none"]}
    /\ UNCHANGED <<lastDash, lastBrowse>>

\* main.js:238-255, the switch: the page's data load.  loadTagExplorer and
\* loadAnalytics are not defined by the class, so calling them throws a
\* TypeError and the promise of navigateToPage is rejected.
loadPageData(page) ==
    CASE page = "dashboard" ->
            /\ StartDashboardLoad(currentPage = "browse"
                                  /\ \E l \in loads : l.kind \in DashboardKinds,
                                  explicitContentEnabled)
            /\ navRejected' = FALSE
      [] page = "browse" ->
            /\ StartBrowseLoad(explicitContentEnabled)
            /\ navRejected' = FALSE
      [] page \in {"tags", "analytics"} ->
            /\ navRejected' = TRUE
            /\ UNCHANGED <<loads, nextLoad, lastDash, lastBrowse>>
      [] OTHER ->
            /\ navRejected' = FALSE
            /\ UNCHANGED <<loads, nextLoad, lastDash, lastBrowse>>

\* Variant of navigateToPage: the view is switched only when the data has
\* come (the load is awaited before showPage).
navigateToPage_LoadFirst(page) ==
    /\ UNCHANGED <<currentPage, activePages>>
    /\ loadPageData(page)

\* main.js:220-257
navigateToPage(page) ==
    /\ showPage(page)
    /\ loadPageData(page)

\* Variant of refreshCurrentContent: the browse page is not reloaded.
refreshCurrentContent_DashboardOnly(gate) ==
    CASE currentPage = "dashboard" -> StartDashboardLoad(FALSE, gate)
      [] OTHER -> UNCHANGED <<loads, nextLoad, lastDash, lastBrowse>>

\* main.js:534-543
refreshCurrentContent(gate) ==
    CASE currentPage = "dashboard" -> StartDashboardLoad(FALSE, gate)
      [] currentPage = "browse" -> StartBrowseLoad(gate)
      [] OTHER -> UNCHANGED <<loads, nextLoad, lastDash, lastBrowse>>

\* main.js:346-363: displayContent(item, bypassWarning)
displayContent(i, bypass) ==
    /\ navigateToPage("content-viewer")
    /\ contentDisplay' = [item |-> i, bypass |-> bypass]

\* Variant of openContent: the item is not remembered when the warning is
\* raised.
openContent_NotRemembered(i) ==
    IF i \in Explicit /\ ~explicitContentEnabled
    THEN /\ warningHidden' = FALSE
         /\ UNCHANGED <<currentContent, currentPage, activePages, loads, nextLoad,
                        lastDash, lastBrowse, navRejected, contentDisplay>>
    ELSE /\ displayContent(i, FALSE)
         /\ UNCHANGED <<currentContent, warningHidden>>

\* main.js:336-344
openContent(i) ==
    IF i \in Explicit /\ ~explicitContentEnabled
    THEN /\ currentContent' = i
         /\ warningHidden' = FALSE
         /\ UNCHANGED <<currentPage, activePages, loads, nextLoad, lastDash, lastBrowse,
                        navRejected, contentDisplay>>
    ELSE /\ displayContent(i, FALSE)
         /\ UNCHANGED <<currentContent, warningHidden>>

\* While the content warning overlay is shown it covers the page: pointer
\* input reaches only its two buttons.
PointerFree == warningHidden

\* main.js:71-77: click on a nav link
ClickNav(page) ==
    /\ PointerFree
    /\ navigateToPage(page)
    /\ UNCHANGED <<explicitContentEnabled, currentContent, warningHidden,
                   recentContent, dashStats, browseContent, searchResultsContainer,
                   contentDisplay, notices, errorLog>>
    /\ UNCHANGED nonUiVars

\* main.js:89-94: back button of the content viewer
ClickBack ==
    /\ PointerFree
    /\ "content-viewer" \in activePages
    /\ navigateToPage("browse")
    /\ UNCHANGED <<explicitContentEnabled, currentContent, warningHidden,
                   recentContent, dashStats, browseContent, searchResultsContainer,
                   contentDisplay, notices, errorLog>>
    /\ UNCHANGED nonUiVars

\* main.js:186-190, 528-532: click on a tag of the tag cloud (filterByTag)
ClickTag ==
    /\ PointerFree
    /\ navigateToPage("browse")
    /\ UNCHANGED <<explicitContentEnabled, currentContent, warningHidden,
                   recentContent, dashStats, browseContent, searchResultsContainer,
                   contentDisplay, notices, errorLog>>
    /\ UNCHANGED nonUiVars

\* main.js:177-183, 522-526: click on a content-type filter button
ClickFilter ==
    /\ PointerFree
    /\ refreshCurrentContent(explicitContentEnabled)
    /\ UNCHANGED <<currentPage, explicitContentEnabled, currentContent, activePages,
                   warningHidden, recentContent, dashStats, browseContent,
                   searchResultsContainer, contentDisplay, notices, errorLog,
                   navRejected>>
    /\ UNCHANGED nonUiVars

\* main.js:193-202: click on the explicit-content toggle
ToggleExplicit ==
    /\ PointerFree
    /\ explicitContentEnabled' = ~explicitContentEnabled
    /\ refreshCurrentContent(~explicitContentEnabled)
    /\ UNCHANGED <<currentPage, currentContent, activePages, warningHidden,
                   recentContent, dashStats, browseContent, searchResultsContainer,
                   contentDisplay, notices, errorLog, navRejected>>
    /\ UNCHANGED nonUiVars

\* main.js:315: click on a card of the dashboard or of the browse page
ClickCard(i) ==
    /\ PointerFree
    /\ \/ "dashboard" \in activePages /\ i \in recentContent.items
       \/ "browse" \in activePages /\ i \in browseContent
    /\ openContent(i)
    /\ UNCHANGED <<explicitContentEnabled, recentContent, dashStats, browseContent,
                   searchResultsContainer, notices, errorLog>>
    /\ UNCHANGED nonUiVars

\* main.js:514-519: click on a card of the advanced search results; its
\* handler opens the first result carrying the card's title.
ClickSearchCard(i) ==
    /\ PointerFree
    /\ "search" \in activePages
    /\ i \in searchResultsContainer
    /\ openContent(FindByTitle(searchResultsContainer, Title(i)))
    /\ UNCHANGED <<explicitContentEnabled, recentContent, dashStats, browseContent,
                   searchResultsContainer, notices, errorLog>>
    /\ UNCHANGED nonUiVars

\* Variant of ConfirmAge: confirming the warning also turns the gate on.
ConfirmAge_EnableGate ==
    /\ ~warningHidden
    /\ warningHidden' = TRUE
    /\ explicitContentEnabled' = TRUE
    /\ IF currentContent # 0
       THEN displayContent(currentContent, TRUE)
       ELSE UNCHANGED <<currentPage, activePages, loads, nextLoad, lastDash, lastBrowse,
                        navRejected, contentDisplay>>
    /\ UNCHANGED <<currentContent, recentContent, dashStats,
                   browseContent, searchResultsContainer, notices, errorLog>>
    /\ UNCHANGED nonUiVars

\* main.js:100-107: "confirm" button of the content warning
ConfirmAge ==
    /\ ~warningHidden
    /\ warningHidden' = TRUE
    /\ IF currentContent # 0
       THEN displayContent(currentContent, TRUE)
       ELSE UNCHANGED <<currentPage, activePages, loads, nextLoad, lastDash, lastBrowse,
                        navRejected, contentDisplay>>
    /\ UNCHANGED <<explicitContentEnabled, currentContent, recentContent, dashStats,
                   browseContent, searchResultsContainer, notices, errorLog>>
    /\ UNCHANGED nonUiVars

\* Variant of CancelWarning: the overlay is hidden and the page stays.
CancelWarning_StayOnPage ==
    /\ ~warningHidden
    /\ warningHidden' = TRUE
    /\ UNCHANGED <<currentPage, activePages, loads, nextLoad, lastDash, lastBrowse, navRejected>>
    /\ UNCHANGED <<explicitContentEnabled, currentContent, recentContent, dashStats,
                   browseContent, searchResultsContainer, contentDisplay, notices,
                   errorLog>>
    /\ UNCHANGED nonUiVars

\* main.js:109-114: "cancel" button of the content warning
CancelWarning ==
    /\ ~warningHidden
    /\ warningHidden' = TRUE
    /\ navigateToPage("browse")
    /\ UNCHANGED <<explicitContentEnabled, currentContent, recentContent, dashStats,
                   browseContent, searchResultsContainer, contentDisplay, notices,
                   errorLog>>
    /\ UNCHANGED nonUiVars

\* main.js:164-172, 471-478: Enter in the quick-search field with a
\* non-empty query (navigateToSearch)
EnterSearch ==
    /\ showPage("search")
    /\ navRejected' = FALSE
    /\ StartAdvancedSearch
    /\ UNCHANGED <<explicitContentEnabled, currentContent, warningHidden,
                   recentContent, dashStats, browseContent, searchResultsContainer,
                   contentDisplay, notices, errorLog>>
    /\ UNCHANGED nonUiVars

\* main.js:593-596: showError writes to the console only.
showError(message) ==
    /\ errorLog' = message
    /\ UNCHANGED notices

\* main.js:262-270: the statistics request resolved; the statistics are
\* shown and the writings request is sent with the gate value of now.
StatsResolve(l) ==
    /\ l \in loads /\ l.kind = "stats"
    /\ dashStats' = l.id
    /\ loads' = (loads \ {l}) \cup
                {[id |-> l.id, kind |-> "recent", explicit |-> explicitContentEnabled,
                  toggle |-> l.toggle]}
    /\ UNCHANGED <<currentPage, explicitContentEnabled, currentContent, activePages,
                   warningHidden, recentContent, browseContent, searchResultsContainer,
                   contentDisplay, notices, nextLoad, lastDash, lastBrowse, errorLog, navRejected>>
    /\ UNCHANGED nonUiVars

\* main.js:296-310: displayRecentContent renders a card for every item but
\* the explicit ones while the gate is off.
RecentCards(items) ==
    {i \in items : ~(~explicitContentEnabled /\ i \in Explicit)}

\* main.js:266-271: the writings request of a dashboard load resolved.
RecentResolve(l, items) ==
    /\ l \in loads /\ l.kind = "recent"
    /\ items \in ServerItems(l.explicit)
    /\ recentContent' = [items |-> RecentCards(items), src |-> l.id]
    /\ loads' = loads \ {l}
    /\ lastDash' = IF lastDash.id = l.id
                   THEN [lastDash EXCEPT !.state = "ok", !.got = items \cap Explicit]
                   ELSE lastDash
    /\ UNCHANGED lastBrowse
    /\ UNCHANGED <<currentPage, explicitContentEnabled, currentContent, activePages,
                   warningHidden, dashStats, browseContent, searchResultsContainer,
                   contentDisplay, notices, nextLoad, errorLog, navRejected>>
    /\ UNCHANGED nonUiVars

\* Variant of DashboardReject: the writings request is sent although the
\* statistics request was rejected.
DashboardReject_WritingsAnyway(l) ==
    /\ l \in loads /\ l.kind \in DashboardKinds
    /\ loads' = IF l.kind = "stats"
                THEN (loads \ {l}) \cup
                     {[id |-> l.id, kind |-> "recent",
                       explicit |-> explicitContentEnabled, toggle |-> l.toggle]}
                ELSE loads \ {l}
    /\ showError("Failed to load dashboard data")
    /\ lastDash' = IF lastDash.id = l.id THEN [lastDash EXCEPT !.state = "failed"]
                   ELSE lastDash
    /\ UNCHANGED lastBrowse
    /\ UNCHANGED <<currentPage, explicitContentEnabled, currentContent, activePages,
                   warningHidden, recentContent, dashStats, browseContent,
                   searchResultsContainer, contentDisplay, nextLoad, navRejected>>
    /\ UNCHANGED nonUiVars

\* main.js:273-276: a request of a dashboard load was rejected.
DashboardReject(l) ==
    /\ l \in loads /\ l.kind \in DashboardKinds
    /\ loads' = loads \ {l}
    /\ showError("Failed to load dashboard data")
    /\ lastDash' = IF lastDash.id = l.id THEN [lastDash EXCEPT !.state = "failed"]
                   ELSE lastDash
    /\ UNCHANGED lastBrowse
    /\ UNCHANGED <<currentPage, explicitContentEnabled, currentContent, activePages,
                   warningHidden, recentContent, dashStats, browseContent,
                   searchResultsContainer, contentDisplay, nextLoad, navRejected>>
    /\ UNCHANGED nonUiVars

\* Variant of BrowseResolve: a response that finds another page current is
\* dropped.
BrowseResolve_DropStale(l, items) ==
    /\ l \in loads /\ l.kind = "browse"
    /\ items \in ServerItems(l.explicit)
    /\ browseContent' = IF currentPage = "browse" THEN items ELSE browseContent
    /\ loads' = loads \ {l}
    /\ lastBrowse' = IF lastBrowse.id = l.id
                     THEN [lastBrowse EXCEPT !.state = "ok", !.got = items \cap Explicit]
                     ELSE lastBrowse
    /\ UNCHANGED <<currentPage, explicitContentEnabled, currentContent, activePages,
                   warningHidden, recentContent, dashStats, searchResultsContainer,
                   contentDisplay, notices, nextLoad, lastDash, errorLog, navRejected>>
    /\ UNCHANGED nonUiVars

\* main.js:552, 559-569: the browse request resolved; displayBrowseContent
\* renders a card for every item.
BrowseResolve(l, items) ==
    /\ l \in loads /\ l.kind = "browse"
    /\ items \in ServerItems(l.explicit)
    /\ browseContent' = items
    /\ loads' = loads \ {l}
    /\ lastBrowse' = IF lastBrowse.id = l.id
                     THEN [lastBrowse EXCEPT !.state = "ok", !.got = items \cap Explicit]
                     ELSE lastBrowse
    /\ UNCHANGED <<currentPage, explicitContentEnabled, currentContent, activePages,
                   warningHidden, recentContent, dashStats, searchResultsContainer,
                   contentDisplay, notices, nextLoad, lastDash, errorLog, navRejected>>
    /\ UNCHANGED nonUiVars

\* main.js:553-556
BrowseReject(l) ==
    /\ l \in loads /\ l.kind = "browse"
    /\ loads' = loads \ {l}
    /\ lastBrowse' = IF lastBrowse.id = l.id
                     THEN [lastBrowse EXCEPT !.state = "failed"]
                     ELSE lastBrowse
    /\ showError("Failed to load content")
    /\ UNCHANGED <<currentPage, explicitContentEnabled, currentContent, activePages,
                   warningHidden, recentContent, dashStats, browseContent,
                   searchResultsContainer, contentDisplay, nextLoad, lastDash,
                   navRejected>>
    /\ UNCHANGED nonUiVars

\* main.js:488, 495-520: the advanced search resolved; a card for every
\* result (a "no results" note for an empty list).
AdvancedSearchResolve(l, items) ==
    /\ l \in loads /\ l.kind = "advanced"
    /\ items \in ServerItems(l.explicit)
    /\ searchResultsContainer' = items
    /\ loads' = loads \ {l}
    /\ UNCHANGED <<currentPage, explicitContentEnabled, currentContent, activePages,
                   warningHidden, recentContent, dashStats, browseContent,
                   contentDisplay, notices, nextLoad, lastDash, lastBrowse, errorLog, navRejected>>
    /\ UNCHANGED nonUiVars

\* main.js:489-492
AdvancedSearchReject(l) ==
    /\ l \in loads /\ l.kind = "advanced"
    /\ loads' = loads \ {l}
    /\ showError("Search failed")
    /\ UNCHANGED <<currentPage, explicitContentEnabled, currentContent, activePages,
                   warningHidden, recentContent, dashStats, browseContent,
                   searchResultsContainer, contentDisplay, nextLoad, lastDash, lastBrowse,
                   navRejected>>
    /\ UNCHANGED nonUiVars

\* main.js:4-13, 15-28: the fields set by the constructor, the markup as
\* served (dashboard active, overlay hidden, containers empty) and init up
\* to its first await, the statistics request of loadDashboardData.
InitUI ==
    /\ currentPage = "dashboard"
    /\ explicitContentEnabled = FALSE
    /\ currentContent = 0
    /\ activePages = {"dashboard"}
    /\ warningHidden = TRUE
    /\ recentContent = [items |-> {}, src |-> 0]
    /\ dashStats = 0
    /\ browseContent = {}
    /\ searchResultsContainer = {}
    /\ contentDisplay = [item |-> 0, bypass |-> FALSE]
    /\ notices = {}
    /\ loads = {[id |-> 1, kind |-> "stats", explicit |-> FALSE, toggle |-> "none"]}
    /\ nextLoad = 1
    /\ lastDash = [id |-> 1, state |-> "pending", race |-> FALSE, got |-> {}]
    /\ lastBrowse = [id |-> 0, state |-> "none", got |-> {}]
    /\ errorLog = ""
    /\ navRejected = FALSE

(***************************************************************************)
(* Part 3.  Quick search: the debounced input handler of #searchInput      *)
(***************************************************************************)

\* main.js:148, the debounce delay of the input handler (ms)
DebounceDelay == 300

\* main.js:143, the least length of a query that is searched for
MinQueryLength == 2

\* main.js:161, the delay of the blur handler (ms)
BlurDelay == 200

\* Granularity of the clock of the quick-search model (ms per tick).
SearchQuantum == 100

\* Largest number of requests counted for one run of input events.
MaxCount == 2

\* Values the input field takes in the model (sequences of characters).
InputValues ==
    { <<>>, <<" ">>, <<" ", "l">>, <<"l", "o", " ">>, <<"l", "o", "v">> }

Min(a, b) == IF a <= b THEN a ELSE b

\* The white space characters of the model's strings.
WhiteSpace == {" ", "\n"}

\* String.prototype.trim: white space removed at both ends.
RECURSIVE TrimLeft(_)
TrimLeft(v) == IF v # <<>> /\ Head(v) \in WhiteSpace THEN TrimLeft(Tail(v)) ELSE v
RECURSIVE TrimRight(_)
TrimRight(v) ==
    IF v # <<>> /\ v[Len(v)] \in WhiteSpace
    THEN TrimRight(SubSeq(v, 1, Len(v) - 1))
    ELSE v
Trim(v) == TrimRight(TrimLeft(v))

NoBurst == [keys |-> 0, requests |-> 0, prevQuery |-> <<>>]

\* main.js:8 (searchTimeout = null) and the markup as served: empty field,
\* empty and hidden results panel.
InitSearch ==
    /\ searchInputValue = <<>>
    /\ searchTimeout = 0
    /\ debounceTimers = {}
    /\ quickLoads = {}
    /\ searchResults = [q |-> <<>>, items |-> {}]
    /\ searchResultsHidden = TRUE
    /\ sinceKey = DebounceDelay
    /\ burst = NoBurst
    /\ lastRequest = <<>>
    /\ focused = FALSE
    /\ blurTimers = {}
    /\ advancedQuery = <<>>

\* api.js:485-487: startConnectionMonitoring has just set the interval; the
\* indicator shows what the page's markup gives it.
InitMonitor ==
    /\ statusText = "markup"
    /\ intervalLeft = pollInterval
    /\ polls = 0
    /\ probes = {}
    /\ lastProbe = NoProbe

\* Nothing rendered yet.
NoMarkup == [r \in Renderers |-> <<>>]
NoRenders == [r \in Renderers |-> 0]

\* The renderers at rest.
InitRender ==
    /\ subject = <<>>
    /\ markup = NoMarkup
    /\ renders = NoRenders

\* main.js:15-28: init has shown the loading screen and called
\* loadDashboardData, which awaits the statistics.
InitStart ==
    /\ initPc = "stats"
    /\ startLog = <<>>
    /\ loadingScreen = "shown"
    /\ hideLeft = 0

\* The application apart from the renderers.
InitApp == InitApi /\ InitUI /\ InitSearch /\ InitMonitor /\ InitStart

Init == InitApp /\ InitRender

NextUI ==
    \/ \E page \in NavPages : ClickNav(page)
    \/ ClickBack
    \/ ClickTag
    \/ ClickFilter
    \/ ToggleExplicit
    \/ \E i \in Items : ClickCard(i)
    \/ \E i \in Items : ClickSearchCard(i)
    \/ ConfirmAge
    \/ CancelWarning
    \/ EnterSearch
    \/ \E l \in loads : StatsResolve(l)
    \/ \E l \in loads, items \in SUBSET Items : RecentResolve(l, items)
    \/ \E l \in loads : DashboardReject(l)
    \/ \E l \in loads, items \in SUBSET Items : BrowseResolve(l, items)
    \/ \E l \in loads : BrowseReject(l)
    \/ \E l \in loads, items \in SUBSET Items : AdvancedSearchResolve(l, items)
    \/ \E l \in loads : AdvancedSearchReject(l)

\* The retry protocol of one makeRequest call, the application at rest.
SpecApi == Init /\ [][NextApi]_vars

\* Concurrent makeRequest calls, the application at rest.
SpecPair == Init /\ [][NextPair]_vars

\* The application; every API call is seen by its outcome only.
Spec == Init /\ [][NextUI]_vars

(***************************************************************************)
(* Part 3, continued: the handlers of the quick search                     *)
(***************************************************************************)

\* Variant of InputTimers: the pending timer is not cleared before the new
\* one is set.
InputTimers_NoClear(query) ==
    {[t EXCEPT !.latest = FALSE] : t \in debounceTimers}
       \cup {[q |-> query, left |-> DebounceDelay, latest |-> TRUE]}

\* Variant of InputTimers: the test of the handle is inverted, so a pending
\* timer is left to fire.
InputTimers_ClearWhenNull(query) ==
    (IF searchTimeout = 0
     THEN {t \in debounceTimers : ~t.latest}
     ELSE {[t EXCEPT !.latest = FALSE] : t \in debounceTimers})
       \cup {[q |-> query, left |-> DebounceDelay, latest |-> TRUE]}

\* main.js:136-148: the timers pending after the input handler ran:
\* clearTimeout(this.searchTimeout) if it is set, then a new timer.
InputTimers(query) ==
    (IF searchTimeout # 0 THEN {t \in debounceTimers : ~t.latest} ELSE debounceTimers)
       \cup {[q |-> query, left |-> DebounceDelay, latest |-> TRUE]}

\* main.js:133-149: an input event of #searchInput, whose value is now v.
\* An event less than 300 ms after the one before continues the run of
\* events, another one starts a new run.
InputEvent(v) ==
    /\ focused
    /\ v # searchInputValue
    /\ searchInputValue' = v
    /\ debounceTimers' = InputTimers(Trim(v))
    /\ searchTimeout' = 1
    /\ sinceKey' = 0
    /\ burst' = IF burst.keys > 0 /\ sinceKey < DebounceDelay
                THEN [burst EXCEPT !.keys = Min(@ + 1, MaxCount),
                                   !.prevQuery = Trim(searchInputValue)]
                ELSE [keys |-> 1, requests |-> 0, prevQuery |-> <<>>]
    /\ UNCHANGED <<quickLoads, searchResults, searchResultsHidden, lastRequest,
                   focused, blurTimers, advancedQuery>>
    /\ UNCHANGED nonSearchVars

\* main.js:142-148, 425-431: a debounce timer fires: a query of at least 2
\* characters is searched for (performSearch up to its await), a shorter
\* one hides the results panel.
DebounceFire(t) ==
    /\ t \in debounceTimers
    /\ t.left = 0
    /\ debounceTimers' = debounceTimers \ {t}
    /\ IF Len(t.q) >= MinQueryLength
       THEN /\ quickLoads' = quickLoads \cup {t.q}
            /\ lastRequest' = t.q
            /\ burst' = [burst EXCEPT !.requests = Min(@ + 1, MaxCount)]
            /\ UNCHANGED searchResultsHidden
       ELSE /\ searchResultsHidden' = TRUE
            /\ UNCHANGED <<quickLoads, lastRequest, burst>>
    /\ UNCHANGED <<searchInputValue, searchTimeout, searchResults, sinceKey,
                   focused, blurTimers, advancedQuery>>
    /\ UNCHANGED nonSearchVars

\* main.js:433, 439-455: a quick search resolved; its results are written
\* to the panel and the panel is shown.
QuickSearchResolve(q, items) ==
    /\ q \in quickLoads
    /\ items \in ServerItems(explicitContentEnabled)
    /\ quickLoads' = quickLoads \ {q}
    /\ searchResults' = [q |-> q, items |-> items]
    /\ searchResultsHidden' = FALSE
    /\ UNCHANGED <<searchInputValue, searchTimeout, debounceTimers, sinceKey, burst,
                   lastRequest, focused, blurTimers, advancedQuery>>
    /\ UNCHANGED nonSearchVars

\* main.js:434-436: a quick search was rejected; the error is logged.
QuickSearchReject(q) ==
    /\ q \in quickLoads
    /\ quickLoads' = quickLoads \ {q}
    /\ UNCHANGED <<searchInputValue, searchTimeout, debounceTimers, searchResults,
                   searchResultsHidden, sinceKey, burst, lastRequest, focused,
                   blurTimers, advancedQuery>>
    /\ UNCHANGED nonSearchVars

\* Variant of Blur: the results panel is hidden at once, with no timer.
Blur_HideAtOnce ==
    /\ focused
    /\ focused' = FALSE
    /\ searchResultsHidden' = TRUE
    /\ UNCHANGED <<searchInputValue, searchTimeout, debounceTimers, quickLoads,
                   searchResults, sinceKey, burst, lastRequest, blurTimers,
                   advancedQuery>>
    /\ UNCHANGED nonSearchVars

\* main.js:157-162: #searchInput loses the focus: a timer of 200 ms that
\* will hide the results panel.
BlurTimers == blurTimers \cup {[left |-> BlurDelay]}

Blur ==
    /\ focused
    /\ focused' = FALSE
    /\ blurTimers' = BlurTimers
    /\ UNCHANGED <<searchInputValue, searchTimeout, debounceTimers, quickLoads,
                   searchResults, searchResultsHidden, sinceKey, burst, lastRequest,
                   advancedQuery>>
    /\ UNCHANGED nonSearchVars

\* main.js:159-161, 464-469: the timer of a blur fires: hideSearchResults.
BlurFire(t) ==
    /\ t \in blurTimers
    /\ t.left = 0
    /\ blurTimers' = blurTimers \ {t}
    /\ searchResultsHidden' = TRUE
    /\ UNCHANGED <<searchInputValue, searchTimeout, debounceTimers, quickLoads,
                   searchResults, sinceKey, burst, lastRequest, focused,
                   advancedQuery>>
    /\ UNCHANGED nonSearchVars

\* Variant of Focus: the results panel is shown whatever the field holds.
Focus_AlwaysShow ==
    /\ ~focused
    /\ focused' = TRUE
    /\ searchResultsHidden' = FALSE
    /\ UNCHANGED <<searchInputValue, searchTimeout, debounceTimers, quickLoads,
                   searchResults, sinceKey, burst, lastRequest, blurTimers,
                   advancedQuery>>
    /\ UNCHANGED nonSearchVars

\* main.js:151-155: #searchInput gets the focus: the results panel is shown
\* again if the field holds a query of at least 2 characters.
Focus ==
    /\ ~focused
    /\ focused' = TRUE
    /\ searchResultsHidden' =
          IF Len(Trim(searchInputValue)) >= MinQueryLength THEN FALSE
          ELSE searchResultsHidden
    /\ UNCHANGED <<searchInputValue, searchTimeout, debounceTimers, quickLoads,
                   searchResults, sinceKey, burst, lastRequest, blurTimers,
                   advancedQuery>>
    /\ UNCHANGED nonSearchVars

\* Variant of EnterKey: the query is not tested.
EnterKey_AnyQuery ==
    /\ focused
    /\ showPage("search")
    /\ navRejected' = FALSE
    /\ focused' = FALSE
    /\ blurTimers' = BlurTimers
    /\ advancedQuery' = Trim(searchInputValue)
    /\ StartAdvancedSearch
    /\ UNCHANGED <<explicitContentEnabled, currentContent, warningHidden,
                   recentContent, dashStats, browseContent, searchResultsContainer,
                   contentDisplay, notices, errorLog>>
    /\ UNCHANGED <<searchInputValue, searchTimeout, debounceTimers, quickLoads,
                   searchResults, searchResultsHidden, sinceKey, burst, lastRequest>>
    /\ UNCHANGED <<apiVars, monitorVars, renderVars, startVars>>

\* main.js:164-172, 471-478, 246-248, 581-586: Enter in #searchInput.  With
\* a non-empty trimmed query navigateToSearch shows the search page, whose
\* transition moves the focus to #advancedSearch (so #searchInput is
\* blurred), writes the query to #advancedSearch and calls
\* performAdvancedSearch with it.
EnterKey ==
    /\ focused
    /\ Trim(searchInputValue) # <<>>
    /\ showPage("search")
    /\ navRejected' = FALSE
    /\ focused' = FALSE
    /\ blurTimers' = BlurTimers
    /\ advancedQuery' = Trim(searchInputValue)
    /\ StartAdvancedSearch
    /\ UNCHANGED <<explicitContentEnabled, currentContent, warningHidden,
                   recentContent, dashStats, browseContent, searchResultsContainer,
                   contentDisplay, notices, errorLog>>
    /\ UNCHANGED <<searchInputValue, searchTimeout, debounceTimers, quickLoads,
                   searchResults, searchResultsHidden, sinceKey, burst, lastRequest>>
    /\ UNCHANGED <<apiVars, monitorVars, renderVars, startVars>>

\* SearchQuantum ms pass; time does not pass over a due timer.
TickSearch ==
    /\ debounceTimers # {} \/ blurTimers # {} \/ sinceKey < DebounceDelay
    /\ \A t \in debounceTimers \cup blurTimers : t.left > 0
    /\ debounceTimers' =
          {[t EXCEPT !.left = Max(0, @ - SearchQuantum)] : t \in debounceTimers}
    /\ blurTimers' =
          {[t EXCEPT !.left = Max(0, @ - SearchQuantum)] : t \in blurTimers}
    /\ sinceKey' = Min(sinceKey + SearchQuantum, DebounceDelay)
    /\ UNCHANGED <<searchInputValue, searchTimeout, quickLoads, searchResults,
                   searchResultsHidden, burst, lastRequest, focused, advancedQuery>>
    /\ UNCHANGED nonSearchVars

NextSearch ==
    \/ \E v \in InputValues : InputEvent(v)
    \/ \E t \in debounceTimers : DebounceFire(t)
    \/ \E q \in quickLoads, items \in SUBSET Items : QuickSearchResolve(q, items)
    \/ \E q \in quickLoads : QuickSearchReject(q)
    \/ Focus
    \/ Blur
    \/ \E t \in blurTimers : BlurFire(t)
    \/ TickSearch

\* The quick-search field, the rest of the application at rest.
SpecSearch == Init /\ [][NextSearch]_vars

NextEnter ==
    \/ \E v \in InputValues : InputEvent(v)
    \/ \E t \in debounceTimers : DebounceFire(t)
    \/ \E q \in quickLoads, items \in SUBSET Items : QuickSearchResolve(q, items)
    \/ Focus
    \/ \E t \in blurTimers : BlurFire(t)
    \/ EnterKey
    \/ TickSearch

\* The quick-search field with the Enter key, which commits the query to
\* the search page.
SpecEnter == Init /\ [][NextEnter]_vars


(***************************************************************************)
(* Part 4.  The connection monitor (api.js:457-487)                        *)
(***************************************************************************)

\* api.js:275-283: healthCheck returns response.ok, and false when the fetch
\* was rejected; it never throws.
healthCheck(end) ==
    IF end.kind = "response" THEN OkStatus(end.status) ELSE FALSE

\* api.js:288-302: getConnectionStatus awaits healthCheck, drops the value
\* it returns and answers "online"; "offline" is answered only if
\* healthCheck throws.
getConnectionStatus(end) ==
    LET returned == healthCheck(end)
        thrown == FALSE
    IN  IF thrown THEN "offline" ELSE "online"

\* api.js:466-473: the text the callback writes for a status.
IndicatorText(status) == IF status = "online" THEN "ONLINE" ELSE "OFFLINE"

\* MonitorQuantum ms pass; time does not pass over a due callback.
TickMonitor ==
    /\ intervalLeft > 0
    /\ intervalLeft' = Max(0, intervalLeft - MonitorQuantum)
    /\ UNCHANGED <<statusText, polls, probes, lastProbe>>
    /\ UNCHANGED nonMonitorVars

\* api.js:461-462, 275-277: the interval callback runs up to the await of
\* fetch('/health'); the interval is armed again.
IntervalFires ==
    /\ intervalLeft = 0
    /\ polls < MaxPolls
    /\ polls' = polls + 1
    /\ probes' = probes \cup {polls + 1}
    /\ intervalLeft' = pollInterval
    /\ UNCHANGED <<statusText, lastProbe>>
    /\ UNCHANGED nonMonitorVars

\* api.js:277-282, 462-474: the fetch of callback p ends with `end`; the
\* callback writes the indicator (#connectionStatus and .status-text are
\* taken to exist).
HealthProbeEnds(p, end) ==
    /\ p \in probes
    /\ probes' = probes \ {p}
    /\ lastProbe' = end
    /\ statusText' = IndicatorText(getConnectionStatus(end))
    /\ UNCHANGED <<intervalLeft, polls>>
    /\ UNCHANGED nonMonitorVars

NextMonitor ==
    \/ TickMonitor
    \/ IntervalFires
    \/ \E p \in probes, end \in ProbeEnds : HealthProbeEnds(p, end)

\* The connection monitor, the application at rest.
SpecMonitor == Init /\ [][NextMonitor]_vars

(***************************************************************************)
(* Part 5.  The renderers.  A string is a sequence of characters; markup   *)
(* is a sequence whose elements are characters of inserted text, character *)
(* references ("&lt;") and pieces of the template literals ("<p>").        *)
(***************************************************************************)

\* Times one renderer runs in one run.
MaxRenders == 2

\* main.js:616-620, contentViewer.js:45-49: escapeHtml, the innerHTML of a
\* text node: &, < and > become character references.
EscapeChar(ch) ==
    CASE ch = "&" -> "&amp;"
      [] ch = "<" -> "&lt;"
      [] ch = ">" -> "&gt;"
      [] OTHER -> ch
escapeHtml(text) == [k \in 1..Len(text) |-> EscapeChar(text[k])]

\* Array.prototype.join('') of a list of markups.
RECURSIVE Join(_)
Join(parts) == IF parts = <<>> THEN <<>> ELSE Head(parts) \o Join(Tail(parts))

\* Array.prototype.join(sep)
RECURSIVE JoinWith(_, _)
JoinWith(parts, sep) ==
    IF parts = <<>> THEN <<>>
    ELSE IF Len(parts) = 1 THEN Head(parts)
    ELSE Head(parts) \o sep \o JoinWith(Tail(parts), sep)

\* String.prototype.indexOf, counted from 1 (0: not found).
IndexOf(text, sep) ==
    LET at == {k \in 1..(Len(text) - Len(sep) + 1) :
                  SubSeq(text, k, k + Len(sep) - 1) = sep}
    IN  IF at = {} THEN 0 ELSE CHOOSE k \in at : \A j \in at : k <= j

\* String.prototype.split with a non-empty separator.
RECURSIVE Split(_, _)
Split(text, sep) ==
    LET k == IndexOf(text, sep)
    IN  IF k = 0 THEN <<text>>
        ELSE <<SubSeq(text, 1, k - 1)>>
             \o Split(SubSeq(text, k + Len(sep), Len(text)), sep)

\* String.prototype.substring(from, to), positions counted from 0.
substring(text, from, to) == SubSeq(text, from + 1, Min(to, Len(text)))

\* main.js:317, contentCard.js:9: the length of the excerpt and its ellipsis.
ExcerptLength == 150
Ellipsis == <<".", ".", ".">>

\* Variant of Excerpt: the ellipsis is appended from 150 characters on.
Excerpt_EllipsisAt150(content) ==
    substring(content, 0, ExcerptLength)
       \o (IF Len(content) >= ExcerptLength THEN Ellipsis ELSE <<>>)

\* main.js:317, contentCard.js:9
Excerpt(content) ==
    substring(content, 0, ExcerptLength)
       \o (IF Len(content) > ExcerptLength THEN Ellipsis ELSE <<>>)

\* `<p>${...}</p>`
Paragraph(inner) == <<"<p>">> \o inner \o <<"</p>">>

\* Array.prototype.map
Map(list, F(_)) == [k \in 1..Len(list) |-> F(list[k])]

\* The values of content_type the model renders; toUpperCase of each.
Types == {"poetry", "dialogue", "prose"}
toUpperCase(type) ==
    CASE type = "poetry" -> "POETRY"
      [] type = "dialogue" -> "DIALOGUE"
      [] OTHER -> "PROSE"

\* main.js:370-372, contentViewer.js:27-29: a line of a poem.
PoetryLine(line) ==
    IF Trim(line) # <<>> THEN Paragraph(escapeHtml(line)) ELSE Paragraph(<<"&nbsp;">>)
DialogueParagraph(paragraph) == Paragraph(escapeHtml(paragraph))
DefaultParagraph(paragraph) == Paragraph(escapeHtml(Trim(paragraph)))

\* Variant of formatContentForDisplay: the blank lines of a poem are left
\* out.
formatContentForDisplay_SkipBlank(content, type) ==
    CASE type = "poetry" ->
            Join(Map(SelectSeq(Split(content, <<"\n">>), LAMBDA l : Trim(l) # <<>>),
                     PoetryLine))
      [] type = "dialogue" -> Join(Map(Split(content, <<"\n", "\n">>), DialogueParagraph))
      [] OTHER -> Join(Map(Split(content, <<"\n", "\n">>), DefaultParagraph))

\* main.js:365-386, contentViewer.js:22-43
formatContentForDisplay(content, type) ==
    CASE type = "poetry" -> Join(Map(Split(content, <<"\n">>), PoetryLine))
      [] type = "dialogue" -> Join(Map(Split(content, <<"\n", "\n">>), DialogueParagraph))
      [] OTHER -> Join(Map(Split(content, <<"\n", "\n">>), DefaultParagraph))

\* main.js:330: the span of a tag on a card.
CardTag(tag) == <<"<span class=tag>">> \o escapeHtml(tag.name) \o <<"</span>">>

\* main.js:312-334, contentCard.js:4-32: the innerHTML of the card of an
\* item (item.tags is an array; word count and date are numbers and dates).
createContentCard(item) ==
    <<"<div class=card-header>", "<h3 class=card-title>">>
       \o escapeHtml(item.title)
       \o <<"</h3>", "<div class=card-meta>", "<span class=content-type>",
            toUpperCase(item.content_type), "</span>">>
       \o (IF item.explicit_content THEN <<"<span class=explicit-badge>18+</span>">>
                                    ELSE <<>>)
       \o <<"<span>word_count words</span>", "<span>date</span>", "</div>", "</div>",
            "<div class=card-excerpt>">>
       \o escapeHtml(Excerpt(item.content))
       \o <<"</div>", "<div class=card-tags>">>
       \o Join(Map(item.tags, CardTag))
       \o <<"</div>">>

\* main.js:359, contentViewer.js:16: the name of a tag in the full view.
TagName(tag) == tag.name

\* main.js:355-362, contentViewer.js:12-19: the innerHTML of #contentDisplay.
displayContentMarkup(item) ==
    <<"<h1 class=content-title>">>
       \o escapeHtml(item.title)
       \o <<"</h1>", "<div class=content-meta>", "<span>",
            toUpperCase(item.content_type), "word_count words", "date", "</span>", "<br>">>
       \o (IF Len(item.tags) > 0
           THEN <<"<span>", "Tags: ">> \o JoinWith(Map(item.tags, TagName), <<",", " ">>)
                   \o <<"</span>">>
           ELSE <<>>)
       \o <<"</div>", "<div class=content-text>">>
       \o formatContentForDisplay(item.content, item.content_type)
       \o <<"</div>">>

\* main.js:302-309: the cards displayRecentContent appends for a list.
RecentCardList(content) ==
    Map(SelectSeq(content,
                  LAMBDA item : ~(~explicitContentEnabled /\ item.explicit_content)),
        createContentCard)

\* Variant of displayRecentContent: the container is not emptied first.
displayRecentContent_Append(content) == markup.list \o RecentCardList(content)

\* main.js:296-310: the children of #recentContent after
\* displayRecentContent(content): the container is emptied, then a card is
\* appended for every item that is shown.
displayRecentContent(content) == RecentCardList(content)

\* main.js:416-419: the tag cloud shows the first 12 tags.
TagCloudSize == 12
CloudTag(tag) ==
    <<"<span class=tag data-tag=">> \o escapeHtml(tag.name) \o <<">">>
       \o escapeHtml(tag.name) \o <<"</span>">>

\* Variant of TagsOf: the response is taken to be the array.
TagsOf_ArrayOnly(response) ==
    IF response.shape = "array"
    THEN [isArray |-> TRUE, list |-> response.list]
    ELSE [isArray |-> FALSE, list |-> <<>>]

\* main.js:412: response.tags || response.  An array has no property tags,
\* an array is truthy even when empty, an object without tags is no array.
TagsOf(response) ==
    LET property == IF response.shape = "object"
                    THEN [defined |-> TRUE, list |-> response.list]
                    ELSE [defined |-> FALSE, list |-> <<>>]
    IN  IF property.defined
        THEN [isArray |-> TRUE, list |-> property.list]
        ELSE IF response.shape = "array"
             THEN [isArray |-> TRUE, list |-> response.list]
             ELSE [isArray |-> FALSE, list |-> <<>>]

\* main.js:416-418
TagCloudMarkup(tags) == Join(Map(SubSeq(tags, 1, Min(TagCloudSize, Len(tags))), CloudTag))

\* --- inputs of the renderers -------------------------------------------

\* Longest body of the excerpt runs.
MaxBody == 152

\* Bodies: of every length up to MaxBody, in two spellings.
Body(n, spelling) ==
    [k \in 1..n |-> IF spelling = 1 THEN (IF k % 2 = 0 THEN "a" ELSE "b") ELSE "."]
Bodies == {Body(n, spelling) : n \in 0..MaxBody, spelling \in {1, 2}}

\* Longest poem, and the characters of poems.
MaxPoem == 4
PoemChars == {"a", " ", "\n", "<"}
Poems == UNION {[1..n -> PoemChars] : n \in 0..MaxPoem}

\* Longest tag list; tag lists of every length, names alternating.
MaxTags == 13
TagNames == << <<"a">>, <<"<", "b", "&">> >>
TagList(n, first) == [k \in 1..n |-> [name |-> TagNames[((k + first) % 2) + 1]]]
TagLists == {TagList(n, first) : n \in 0..MaxTags, first \in {0, 1}}

\* Responses of getTags: a bare array, an object with the array as its
\* property tags, and an object without such a property.
TagResponses ==
    [shape : {"array", "object"}, list : TagLists]
       \cup {[shape |-> "other", list |-> <<>>]}

\* Items given to the card and full-view renderers.
RenderItems ==
    [title : {<<"a">>, <<"<", "b", ">">>},
     content : {<<"a", "\n", "b">>, <<"<", "&">>, <<"a", "\n", "\n", " ", "b">>},
     content_type : Types,
     tags : {<<>>, <<[name |-> <<"t">>]>>,
             <<[name |-> <<"t">>], [name |-> <<"<", "i", ">">>]>>},
     explicit_content : BOOLEAN]

\* --- the runs of the renderers -----------------------------------------

\* Renderer r has run and left `out`.
Rendering(r, out) ==
    /\ renders[r] < MaxRenders
    /\ markup' = [markup EXCEPT ![r] = out]
    /\ renders' = [renders EXCEPT ![r] = @ + 1]
    /\ UNCHANGED subject

\* main.js:317: the excerpt of the body `subject`.
MakeExcerpt ==
    /\ Rendering("excerpt", Excerpt(subject))
    /\ UNCHANGED nonRenderVars

\* main.js:365-372: the poem `subject` formatted for the full view.
FormatPoem ==
    /\ Rendering("body", formatContentForDisplay(subject, "poetry"))
    /\ UNCHANGED nonRenderVars

\* main.js:408-423: loadTagCloud after its await, with response `subject`.
LoadTagCloudResolve ==
    LET tags == TagsOf(subject)
    IN  /\ IF tags.isArray
           THEN Rendering("tagCloud", TagCloudMarkup(tags.list))
           ELSE /\ renders.tagCloud < MaxRenders
                /\ renders' = [renders EXCEPT !.tagCloud = @ + 1]
                /\ UNCHANGED <<subject, markup>>
        /\ UNCHANGED nonRenderVars

\* main.js:312-334: the card of item `subject`.
CreateCard ==
    /\ Rendering("card", createContentCard(subject))
    /\ UNCHANGED nonRenderVars

\* main.js:346-363: the full view of item `subject`.
DisplayContent ==
    /\ Rendering("view", displayContentMarkup(subject))
    /\ UNCHANGED nonRenderVars

\* main.js:296-310: the list made of item `subject` is displayed.
DisplayRecentContent ==
    /\ Rendering("list", displayRecentContent(<<subject>>))
    /\ UNCHANGED nonRenderVars

InitExcerpt == InitApp /\ subject \in Bodies /\ markup = NoMarkup /\ renders = NoRenders
InitPoem == InitApp /\ subject \in Poems /\ markup = NoMarkup /\ renders = NoRenders
InitTags == InitApp /\ subject \in TagResponses /\ markup = NoMarkup /\ renders = NoRenders
InitItem == InitApp /\ subject \in RenderItems /\ markup = NoMarkup /\ renders = NoRenders

NextExcerpt == MakeExcerpt
NextPoem == FormatPoem
NextTags == LoadTagCloudResolve
NextItem == CreateCard \/ DisplayContent \/ DisplayRecentContent

\* The excerpt of any body.
SpecExcerpt == InitExcerpt /\ [][NextExcerpt]_vars
\* The formatting of any poem.
SpecPoem == InitPoem /\ [][NextPoem]_vars
\* The tag cloud of any response of getTags.
SpecTags == InitTags /\ [][NextTags]_vars
\* The card, the full view and the list of any item, the gate off.
SpecItem == InitItem /\ [][NextItem]_vars

(***************************************************************************)
(* Part 6.  Start-up: MusingsApp.init (main.js:15-35).  The requests of    *)
(* init are made one after the other; each is a makeRequest call (call 1,   *)
(* made anew for every request) with its time limit and retries.           *)
(***************************************************************************)

\* The call of the request init awaits.
initCall == CHOOSE c \in Solo : TRUE

\* The awaited call is over: makeRequest returned or threw.
Settled1 == calls[initCall].pc \in {"resolved", "rejected"}

\* The call as the next request finds it (abort timers left armed by
\* network errors stay armed).
NextCall == [IdleCall EXCEPT !.dangling = calls[initCall].dangling]

\* main.js:259-277: the statistics request of loadDashboardData is over.
\* Resolved with a body updateDashboardStats can write (rendered): the
\* writings request is next.  Rejected, or updateDashboardStats throws
\* (formatNumber of a body without total_words, main.js:598-605): the catch
\* block logs, loadDashboardData returns and init goes on to loadTagCloud.
StatisticsSettled ==
    /\ initPc = "stats"
    /\ Settled1
    /\ \E rendered \in BOOLEAN :
          LET ok == calls[initCall].pc = "resolved" /\ rendered
          IN  /\ initPc' = IF ok THEN "writings" ELSE "tags"
              /\ startLog' = IF ok THEN startLog ELSE Append(startLog, "failed")
    /\ calls' = [calls EXCEPT ![initCall] = NextCall]
    /\ UNCHANGED <<loadingScreen, hideLeft>>
    /\ UNCHANGED nonApiStartVars

\* main.js:266-276, 28: the writings request of loadDashboardData is over;
\* either way loadDashboardData returns and init calls loadTagCloud.
WritingsSettled ==
    /\ initPc = "writings"
    /\ Settled1
    /\ initPc' = "tags"
    /\ startLog' = Append(startLog,
                          IF calls[initCall].pc = "resolved" THEN "ok" ELSE "failed")
    /\ calls' = [calls EXCEPT ![initCall] = NextCall]
    /\ UNCHANGED <<loadingScreen, hideLeft>>
    /\ UNCHANGED nonApiStartVars

\* Variant of TagCloudSettled: a failed tag-cloud load is tried again.
TagCloudSettled_TriesAgain ==
    /\ initPc = "tags"
    /\ Settled1
    /\ IF calls[initCall].pc = "resolved"
       THEN /\ initPc' = "hide-timer"
            /\ startLog' = Append(startLog, "ok")
            /\ hideLeft' = hideDelay
            /\ UNCHANGED calls
       ELSE /\ calls' = [calls EXCEPT ![initCall] = NextCall]
            /\ UNCHANGED <<initPc, startLog, hideLeft>>
    /\ UNCHANGED loadingScreen
    /\ UNCHANGED nonApiStartVars

\* main.js:410-422, 31-34: the request of loadTagCloud is over; its catch
\* block logs a failure; init sets the timer of hideLoadingScreen and
\* returns.
TagCloudSettled ==
    /\ initPc = "tags"
    /\ Settled1
    /\ initPc' = "hide-timer"
    /\ startLog' = Append(startLog,
                          IF calls[initCall].pc = "resolved" THEN "ok" ELSE "failed")
    /\ hideLeft' = hideDelay
    /\ UNCHANGED <<calls, loadingScreen>>
    /\ UNCHANGED nonApiStartVars

\* main.js:32-34, 60-66: the timer of init fires: hideLoadingScreen makes
\* the screen transparent and sets the timer that removes it.
HideLoadingScreen ==
    /\ initPc = "hide-timer"
    /\ hideLeft = 0
    /\ initPc' = "done"
    /\ loadingScreen' = "fading"
    /\ hideLeft' = fadeDelay
    /\ UNCHANGED <<calls, startLog>>
    /\ UNCHANGED nonApiStartVars

\* main.js:63-65: display = 'none'.
LoadingScreenGone ==
    /\ loadingScreen = "fading"
    /\ hideLeft = 0
    /\ loadingScreen' = "gone"
    /\ UNCHANGED <<calls, initPc, startLog, hideLeft>>
    /\ UNCHANGED nonApiStartVars

\* StartQuantum ms pass while a timer of the loading screen is pending.
TickStart ==
    /\ hideLeft > 0
    /\ hideLeft' = Max(0, hideLeft - StartQuantum)
    /\ UNCHANGED <<calls, initPc, startLog, loadingScreen>>
    /\ UNCHANGED nonApiStartVars

\* The request init awaits is made: main.js:262, 266, 410 (API.get...).
InitRequest ==
    /\ initPc \in {"stats", "writings", "tags"}
    /\ MakeRequest(initCall)

NextStart ==
    \/ InitRequest
    \/ \E status \in Statuses, jsonOk \in BOOLEAN : FetchResponse(initCall, status, jsonOk)
    \/ FetchNetworkError(initCall)
    \/ FetchAbort(initCall)
    \/ \E a \in 1..retryAttempts : StaleTimerFires(initCall, a)
    \/ DelayDone(initCall)
    \/ TickApi
    \/ StatisticsSettled
    \/ WritingsSettled
    \/ TagCloudSettled
    \/ HideLoadingScreen
    \/ LoadingScreenGone
    \/ TickStart

\* Start-up, every request with its retries.
SpecStart == Init /\ [][NextStart]_vars

\* What the event loop and the timers guarantee: code that can run runs,
\* time passes, due timers fire.  A fetch need not be answered: its abort
\* timer ends it.
FairStart ==
    /\ WF_vars(InitRequest)
    /\ WF_vars(FetchAbort(initCall))
    /\ WF_vars(DelayDone(initCall))
    /\ WF_vars(TickApi)
    /\ WF_vars(StatisticsSettled)
    /\ WF_vars(WritingsSettled)
    /\ WF_vars(TagCloudSettled)
    /\ WF_vars(HideLoadingScreen)
    /\ WF_vars(LoadingScreenGone)
    /\ WF_vars(TickStart)

\* Start-up under the guarantees of the event loop.
SpecStartLive == SpecStart /\ FairStart

(***************************************************************************)
(* Claims about APIClient.makeRequest (checked under SpecApi)              *)
(***************************************************************************)

Failed(e) == e.kind # "ok"

\* C1: a makeRequest call makes at most 3 fetch attempts; a call whose
\* attempts 1 and 2 fail and whose attempt 3 succeeds resolves with the data
\* of attempt 3; a call whose 3 attempts all fail rejects with the error of
\* attempt 3; a successful attempt is the last attempt of its call.
C1_RetryBudget ==
    \A c \in Calls :
       LET r == calls[c] IN
       /\ Len(r.log) <= 3
       /\ r.attempt <= 3
       /\ \A i \in 1..Len(r.log) : r.log[i].n = i
       /\ \A i \in 1..Len(r.log) : ~Failed(r.log[i]) => i = Len(r.log) /\ r.pc = "resolved"
       /\ r.pc = "resolved" =>
             /\ r.result = r.log[Len(r.log)]
             /\ r.result.kind = "ok"
             /\ r.result.n = Len(r.log)
       /\ r.pc = "rejected" =>
             /\ Len(r.log) = 3
             /\ \A i \in 1..3 : Failed(r.log[i])
             /\ r.result = r.log[3]
             /\ r.result.n = 3
       /\ r.pc \in {"fetching", "delaying"} => r.result = NoResult

\* C1 witness: attempts 1 and 2 failed, attempt 3 succeeded, the call resolved.
C1_Witness ==
    \E c \in Calls :
       /\ calls[c].pc = "resolved"
       /\ Len(calls[c].log) = 3
       /\ Failed(calls[c].log[1]) /\ Failed(calls[c].log[2])
       /\ calls[c].result.n = 3

\* C8: whatever its kind (network error, timeout abort, non-2xx answer of
\* any status, unparsable body), a failed attempt before the 3rd consumes
\* one attempt and is followed by the same back-off and a retry; a call
\* rejects only after its 3rd attempt.
C8_UniformRetry ==
    \A c \in Calls :
       LET r == calls[c] IN
       /\ r.pc = "rejected" => Len(r.log) = 3
       /\ \A i \in 1..Len(r.log) :
             (Failed(r.log[i]) /\ i < 3) =>
                /\ r.log[i].n = i
                /\ \/ i < Len(r.log)
                   \/ r.pc = "delaying" /\ r.attempt = i /\ r.delayArmed = 1000 * i
                   \/ r.pc = "fetching" /\ r.attempt = i + 1

\* C8 witness: a 404 on attempt 1 and a timeout on attempt 2 were both
\* retried; attempt 3 is in flight.
C8_Witness ==
    \E c \in Calls :
       /\ calls[c].pc = "fetching" /\ calls[c].attempt = 3
       /\ calls[c].log[1].kind = "http" /\ calls[c].log[1].status = 404
       /\ calls[c].log[2].kind = "timeout"

\* C9: an attempt is aborted only when its fetch has been pending for the
\* 10 s timeout, time does not pass beyond a due abort timer, the abort
\* counts as one failed attempt (retried while attempts remain, rejecting
\* the call at attempt 3), and an attempt that got a response has no armed
\* abort timer left.
C9_TimeoutAbort ==
    \A c \in Calls :
       LET r == calls[c] IN
       /\ r.pc = "fetching" /\ r.elapsed >= 10000 => r.timer = 0
       /\ r.pc = "fetching" /\ r.elapsed < 10000 => r.timer > 0
       /\ \A i \in 1..Len(r.log) :
             /\ r.log[i].kind = "timeout" =>
                   /\ r.log[i].late
                   /\ r.log[i].n = i
                   /\ i = 3 => r.pc = "rejected" /\ r.result = r.log[3]
                   /\ (i < 3 /\ i = Len(r.log)) =>
                         r.pc \in {"delaying", "fetching"}
             /\ r.log[i].kind \in {"ok", "http", "parse"} => i \notin r.dangling

\* C9 witness: attempt 1 timed out and attempt 2 is in flight.
C9_Witness ==
    \E c \in Calls :
       /\ calls[c].pc = "fetching" /\ calls[c].attempt = 2
       /\ calls[c].log[1].kind = "timeout"

\* C10 as stated: the delay armed before attempt n is baseDelay * n.
C10_DelayBeforeAttemptN ==
    \A c \in Calls :
       calls[c].pc = "delaying" =>
          calls[c].delayArmed = 1000 * (calls[c].attempt + 1)

\* C10 amended: the delay armed after failed attempt n, i.e. before attempt
\* n + 1, is baseDelay * n (1000 ms before attempt 2, 2000 ms before
\* attempt 3); attempt 1 starts without delay.
C10_DelayAfterAttemptN ==
    \A c \in Calls :
       LET r == calls[c] IN
       /\ r.pc = "delaying" =>
             /\ r.delayArmed = 1000 * r.attempt
             /\ r.delayLeft <= r.delayArmed
             /\ r.attempt < 3
       /\ r.pc = "fetching" => r.delayArmed = 1000 * (r.attempt - 1)

\* C10 witness: the call waits 2000 ms between attempts 2 and 3.
C10_Witness ==
    \E c \in Calls :
       /\ calls[c].pc = "delaying"
       /\ calls[c].attempt = 2
       /\ calls[c].delayArmed = 2000

\* The latest entry of the error log of call c after the step.
LastLogged(c) == calls'[c].log[Len(calls'[c].log)]

\* C24: a non-2xx answer fails its attempt with an APIError that carries
\* the HTTP status and the parsed body, and the empty body {} when the body
\* is not valid JSON; the error of the parse is never what the attempt (or,
\* on the last attempt, the call) fails with.
C24_HttpErrorCarriesBody ==
    [][\A c \in Calls, status \in Statuses, jsonOk \in BOOLEAN :
          (FetchResponse(c, status, jsonOk) /\ ~OkStatus(status)) =>
             /\ Len(calls'[c].log) = Len(calls[c].log) + 1
             /\ LastLogged(c).kind = "http"
             /\ LastLogged(c).status = status
             /\ LastLogged(c).data = (IF jsonOk THEN "body" ELSE "empty")
             /\ (calls'[c].pc = "rejected" => calls'[c].result = LastLogged(c))]_vars

\* C24 witness: a call has been rejected with the APIError of a 404 answer
\* whose body was not JSON.
C24_Witness ==
    \E c \in Calls :
       /\ calls[c].pc = "rejected"
       /\ calls[c].result.kind = "http"
       /\ calls[c].result.status = 404
       /\ calls[c].result.data = "empty"

(***************************************************************************)
(* Claims about concurrent makeRequest calls (checked under SpecPair)      *)
(***************************************************************************)

\* C30: concurrent calls are independent.  A call that is made while another
\* is in flight starts a fetch of its own with attempt 1; a step in which an
\* attempt of one call ends (answer, failure or timeout) leaves every other
\* call as it was; and a call is rejected only when its own three attempts
\* have failed.
C30_CallsIndependent ==
    [][\A c \in Calls : \A d \in Calls \ {c} :
          /\ (MakeRequest(c) =>
                (/\ calls'[c].pc = "fetching"
                 /\ calls'[c].attempt = 1
                 /\ calls'[d] = calls[d]))
          /\ (Len(calls'[c].log) > Len(calls[c].log) => calls'[d] = calls[d])
          /\ (calls'[c].pc = "rejected" =>
                (/\ Len(calls'[c].log) = retryAttempts
                 /\ \A k \in 1..retryAttempts :
                       calls'[c].log[k].n = k /\ Failed(calls'[c].log[k])))]_vars

\* C30 witness: call 1 has used up its budget and was rejected by a timeout
\* while call 2, made meanwhile, is still in its first attempt.
C30_Witness ==
    /\ calls[1].pc = "rejected"
    /\ calls[1].result.kind = "timeout"
    /\ calls[2].pc = "fetching"
    /\ calls[2].attempt = 1
    /\ calls[2].log = <<>>
    /\ calls[2].elapsed > 0

(***************************************************************************)
(* Claims about the connection monitor (checked under SpecMonitor)         *)
(***************************************************************************)

\* C22: once a probe of /health has ended, the indicator shows ONLINE if
\* and only if the probe that ended last got a 2xx response, and OFFLINE
\* if it failed (network error or another status).
C22_IndicatorReflectsProbe ==
    lastProbe # NoProbe =>
       LET up == lastProbe.kind = "response" /\ OkStatus(lastProbe.status)
       IN  /\ statusText = "ONLINE" <=> up
           /\ statusText = "OFFLINE" <=> ~up

(***************************************************************************)
(* Claims about MusingsApp (checked under Spec)                            *)
(***************************************************************************)

DashboardInFlight == \E l \in loads : l.kind \in DashboardKinds

\* C2: while the gate is off, the page shown has no card of an explicit
\* item, and the content viewer shows no explicit item's full view unless
\* the user confirmed the content warning for it.
C2_GateHidesExplicit ==
    ~explicitContentEnabled =>
       /\ "dashboard" \in activePages => recentContent.items \cap Explicit = {}
       /\ "browse" \in activePages => browseContent \cap Explicit = {}
       /\ "search" \in activePages => searchResultsContainer \cap Explicit = {}
       /\ ("content-viewer" \in activePages /\ contentDisplay.item \in Explicit)
             => contentDisplay.bypass

\* C3: after navigating dashboard -> browse -> dashboard with the first
\* dashboard load still pending, once no dashboard load is in flight and the
\* second load has succeeded, the dashboard shows the second load's data.
C3_LatestDashboardLoadWins ==
    (lastDash.race /\ lastDash.state = "ok" /\ ~DashboardInFlight) =>
       /\ recentContent.src = lastDash.id
       /\ dashStats = lastDash.id

\* C5: at most one page view is active at any time.
C5_OneActivePage == Cardinality(activePages) <= 1

\* C5 witness: after user clicks and a programmatic transition (confirming
\* the content warning) the content viewer is the active view.
C5_Witness ==
    /\ activePages = {"content-viewer"}
    /\ contentDisplay.bypass
    /\ nextLoad >= 2

\* C6: no navigateToPage call is rejected, and the page navigated to is the
\* active view and currentPage.
C6_NavigationNeverFails ==
    /\ ~navRejected
    /\ activePages = {currentPage}

\* C7: when a dashboard or browse load was rejected and its loader logged
\* the failure, an error notice for it is visible in the document.
C7_LoadFailureShowsNotice ==
    errorLog \in {"Failed to load dashboard data", "Failed to load content"} =>
       errorLog \in notices

\* The item a click hands to openContent: i is opened by a click on its card
\* on the dashboard or the browse page, or by a click on a search result
\* card whose handler finds i.
Opens(i) ==
    \/ ClickCard(i)
    \/ \E c \in Items : /\ c \in searchResultsContainer
                        /\ FindByTitle(searchResultsContainer, Title(c)) = i
                        /\ ClickSearchCard(c)

\* C11: the gate changes only in a step of the toggle click handler; every
\* other step (navigation, opening an item, confirming or cancelling the
\* warning, advanced search, arrival of a response) leaves it as it is, and
\* confirming the warning displays the item with the gate unchanged.
C11_GateChangesOnlyByToggle ==
    [][ /\ explicitContentEnabled' # explicitContentEnabled => ToggleExplicit
        /\ ConfirmAge => /\ explicitContentEnabled' = explicitContentEnabled
                         /\ contentDisplay'.item = currentContent
      ]_vars

\* C11 witness: the warning was confirmed for an explicit item, which is
\* displayed by the confirmation while the gate is off.
C11_Witness ==
    /\ ~explicitContentEnabled
    /\ contentDisplay.bypass
    /\ contentDisplay.item \in Explicit
    /\ activePages = {"content-viewer"}

\* C12: opening an explicit item while the gate is off raises the warning
\* overlay, renders nothing and leaves the page as it is; while the overlay
\* is up the item it was raised for stays remembered, and confirming hides
\* the overlay and displays exactly that item in the content viewer; an
\* item that is not explicit, or any item while the gate is on, is
\* displayed at once with no overlay.
C12_WarningThenConfirm ==
    [][ /\ \A i \in Items :
             Opens(i) =>
                IF i \in Explicit /\ ~explicitContentEnabled
                THEN /\ ~warningHidden'
                     /\ currentContent' = i
                     /\ contentDisplay' = contentDisplay
                     /\ activePages' = activePages
                     /\ currentPage' = currentPage
                ELSE /\ warningHidden'
                     /\ contentDisplay' = [item |-> i, bypass |-> FALSE]
                     /\ activePages' = {"content-viewer"}
        /\ (~warningHidden /\ ~warningHidden') =>
              /\ currentContent' = currentContent
              /\ contentDisplay' = contentDisplay
        /\ (~warningHidden /\ warningHidden') => ConfirmAge \/ CancelWarning
        /\ ConfirmAge =>
              /\ warningHidden'
              /\ currentContent \in Explicit
              /\ contentDisplay' = [item |-> currentContent, bypass |-> TRUE]
              /\ activePages' = {"content-viewer"}
              /\ currentPage' = "content-viewer"
      ]_vars

\* C12 witness: the warning was raised for item 3 and confirmed: the
\* overlay is hidden and item 3 is displayed in the content viewer.
C12_Witness ==
    /\ warningHidden
    /\ currentContent = 3
    /\ contentDisplay = [item |-> 3, bypass |-> TRUE]
    /\ activePages = {"content-viewer"}
    /\ ~explicitContentEnabled

\* C13: cancelling the content warning hides the overlay and makes browse
\* the active page and currentPage; the content viewer is left as it was,
\* so the item the warning was raised for is not rendered by that open.
C13_CancelReturnsToBrowse ==
    [][ (~warningHidden /\ warningHidden' /\ ~ConfirmAge) =>
           /\ activePages' = {"browse"}
           /\ currentPage' = "browse"
           /\ contentDisplay' = contentDisplay
           /\ \E l \in loads' \ loads : l.kind = "browse"
      ]_vars

\* C13 witness: a warning raised on the dashboard was cancelled: browse is
\* active, the overlay hidden, the item remembered but never displayed.
C13_Witness ==
    /\ warningHidden
    /\ currentContent \in Explicit
    /\ contentDisplay.item = 0
    /\ activePages = {"browse"}
    /\ currentPage = "browse"

\* What the page views show.
Rendered ==
    <<recentContent, dashStats, browseContent, searchResultsContainer, contentDisplay>>

\* The load a step starts, if it starts exactly one.
StartsOne(l) == l \notin loads /\ loads' = loads \cup {l}

\* A toggle click on the browse page starts one browse request carrying the
\* new gate value, one on the dashboard starts one dashboard load (its
\* statistics request), one on any other page starts none and leaves the
\* rendered content as it is.
ToggleReloads ==
    ToggleExplicit =>
       CASE currentPage = "browse" ->
               \E l \in loads' : /\ StartsOne(l)
                                 /\ l.kind = "browse"
                                 /\ l.explicit = explicitContentEnabled'
         [] currentPage = "dashboard" ->
               \E l \in loads' : StartsOne(l) /\ l.kind = "stats"
         [] OTHER ->
               loads' = loads /\ Rendered' = Rendered

\* The writings request a dashboard load sends once its statistics arrived.
WritingsRequestOf(l) ==
    CHOOSE r \in loads' : r.kind = "recent" /\ r.id = l.id

\* C14 as stated: a toggle on the dashboard or on browse forces a reload of
\* the page whose request carries explicit = the gate value the toggle set;
\* a toggle on another page starts no request and leaves the content.
C14_ReloadCarriesToggledGate ==
    [][ /\ ToggleReloads
        /\ \A l \in loads :
              (StatsResolve(l) /\ l.toggle # "none") =>
                 WritingsRequestOf(l).explicit = (l.toggle = "on")
      ]_vars

\* C14 amended: as above, but the writings request of a dashboard load
\* started by a toggle is sent when the statistics have arrived and carries
\* the gate value of that moment.
C14_ReloadCarriesGateAtRequest ==
    [][ /\ ToggleReloads
        /\ \A l \in loads :
              (StatsResolve(l) /\ l.toggle # "none") =>
                 WritingsRequestOf(l).explicit = explicitContentEnabled
      ]_vars

\* C14 witness: the writings request of a dashboard load started by a
\* toggle is in flight and carries the gate value of now, the gate having
\* been toggled again since the toggle that started the load.
C14_Witness ==
    \E r \in loads :
       /\ r.kind = "recent"
       /\ r.toggle # "none"
       /\ r.explicit = explicitContentEnabled
       /\ r.explicit # (r.toggle = "on")

BrowseInFlight == \E l \in loads : l.kind = "browse"

\* C15: on the active dashboard (browse page), once no load of the view is
\* in flight and the latest load of the view has succeeded: with the gate on
\* every explicit item the server returned for that load has a card in the
\* view, with the gate off the view has no card of an explicit item.
C15_QuiescentViewMatchesGate ==
    /\ ("dashboard" \in activePages /\ ~DashboardInFlight /\ lastDash.state = "ok") =>
          IF explicitContentEnabled
          THEN lastDash.got \subseteq recentContent.items
          ELSE recentContent.items \cap Explicit = {}
    /\ ("browse" \in activePages /\ ~BrowseInFlight /\ lastBrowse.state = "ok") =>
          IF explicitContentEnabled
          THEN lastBrowse.got \subseteq browseContent
          ELSE browseContent \cap Explicit = {}

\* C16: every transition started by a nav link dispatches the data load of
\* its target page and no other: dashboard the statistics request (the
\* recent items follow it), browse the item list, tags and analytics a load
\* of their own; search dispatches none.
C16_TransitionDispatchesLoad ==
    [][ \A page \in NavPages :
           ClickNav(page) =>
              /\ ~navRejected'
              /\ page = "dashboard" =>
                    \E l \in loads' \ loads : l.kind = "stats" /\ loads' = loads \cup {l}
              /\ page = "browse" =>
                    \E l \in loads' \ loads : l.kind = "browse" /\ loads' = loads \cup {l}
              /\ page \in {"tags", "analytics"} =>
                    \E l \in loads' \ loads : loads' = loads \cup {l}
              /\ page = "search" => loads' = loads
      ]_vars

\* C20: a click on a card of the advanced search results opens the item the
\* card was rendered from (it raises the warning for it or displays it).
C20_SearchCardOpensItsItem ==
    [][ \A c \in Items :
           ClickSearchCard(c) =>
              \/ ~warningHidden' /\ currentContent' = c
              \/ warningHidden' /\ contentDisplay'.item = c
      ]_vars

\* The requests a step resolves or rejects.
Settled == loads \ loads'

\* C28: a click on a nav link makes the target view the active one and sets
\* currentPage in the step of the click, starts the page's data request
\* (dashboard, browse) and renders no data; data is rendered into the
\* dashboard or the browse view only by a later step, the one that settles
\* a request of that view that was pending.
C28_PageShownBeforeData ==
    [][/\ \A page \in NavPages :
             ClickNav(page) =>
                /\ currentPage' = page
                /\ activePages' = {page}
                /\ Rendered' = Rendered
                /\ (page = "dashboard" =>
                      \E l \in loads' \ loads : l.kind = "stats" /\ l.id = lastDash'.id)
                /\ (page = "browse" =>
                      \E l \in loads' \ loads : l.kind = "browse" /\ l.id = lastBrowse'.id)
       /\ (browseContent' # browseContent => \E l \in Settled : l.kind = "browse")
       /\ (<<recentContent, dashStats>>' # <<recentContent, dashStats>> =>
             \E l \in Settled : l.kind \in DashboardKinds)]_vars

\* C28 witness: after a click on the browse link, the browse page is the
\* current and only active page, still empty, its request pending.
C28_Witness ==
    /\ currentPage = "browse"
    /\ activePages = {"browse"}
    /\ browseContent = {}
    /\ lastBrowse.state = "pending"
    /\ \E l \in loads : l.kind = "browse" /\ l.id = lastBrowse.id

\* The current page, the active views and the gate stay as they are.
PageAndGateKept ==
    UNCHANGED <<currentPage, activePages, explicitContentEnabled>>

\* C29: a response of a dashboard or browse load that arrives while another
\* page is current is applied to the view of the load (the statistics, the
\* recent cards, the browse cards; a failure is reported by showError and
\* leaves the views as they are) and changes neither currentPage nor the
\* active view nor the gate.
C29_StaleResponseApplied ==
    [][\A l \in loads :
          /\ currentPage # "dashboard" =>
                /\ (StatsResolve(l) => dashStats' = l.id /\ PageAndGateKept)
                /\ \A items \in SUBSET Items :
                      RecentResolve(l, items) =>
                         /\ recentContent' = [items |-> RecentCards(items), src |-> l.id]
                         /\ PageAndGateKept
                /\ (DashboardReject(l) =>
                      /\ errorLog' = "Failed to load dashboard data"
                      /\ Rendered' = Rendered
                      /\ PageAndGateKept)
          /\ currentPage # "browse" =>
                /\ \A items \in SUBSET Items :
                      BrowseResolve(l, items) =>
                         browseContent' = items /\ PageAndGateKept
                /\ (BrowseReject(l) =>
                      /\ errorLog' = "Failed to load content"
                      /\ Rendered' = Rendered
                      /\ PageAndGateKept)]_vars

\* C29 witness: the cards of the first dashboard load include an explicit
\* item although no dashboard load was started after it: the gate was
\* turned on on another page, after which the response arrived and was
\* rendered into the dashboard, while that other page stayed current.
C29_Witness ==
    /\ lastDash.id = 1
    /\ recentContent.src = 1
    /\ recentContent.items \cap Explicit # {}
    /\ currentPage # "dashboard"
    /\ activePages = {currentPage}

\* C36: exactly one page view is active, the one currentPage names.
C36_ActiveIsCurrent == activePages = {currentPage}

\* C36 witness: after a visit of the browse page and the opening of an
\* item, the content viewer is the current and the one active page.
C36_Witness ==
    /\ currentPage = "content-viewer"
    /\ activePages = {"content-viewer"}
    /\ contentDisplay.item # 0
    /\ lastBrowse.id # 0

\* C37: a writings request of a dashboard load is sent only by the step
\* in which the statistics request of that load resolves and its
\* statistics are shown; a rejected statistics request sends no writings
\* request and leaves the recent list and the statistics as they are; a
\* rejected writings request leaves the statistics shown and the recent
\* list as they are.
C37_WritingsAfterStatistics ==
    [][/\ \A r \in loads' \ loads :
             r.kind = "recent" =>
                /\ \E l \in Settled : l.kind = "stats" /\ l.id = r.id
                /\ dashStats' = r.id
       /\ \A l \in loads :
             DashboardReject(l) =>
                /\ loads' = loads \ {l}
                /\ UNCHANGED <<recentContent, dashStats>>]_vars

\* C37 witness: the statistics of the first dashboard load are shown, its
\* writings request was rejected, and the recent list is as it was.
C37_Witness ==
    /\ dashStats = 1
    /\ lastDash.id = 1
    /\ lastDash.state = "failed"
    /\ recentContent = [items |-> {}, src |-> 0]
    /\ ~DashboardInFlight

(***************************************************************************)
(* Claims about the quick search (checked under SpecSearch)                *)
(***************************************************************************)

\* C4: a run of input events of the quick-search field, each less than
\* 300 ms after the one before, triggers at most one search request, and
\* that request carries the (trimmed) query of the last event of the run.
C4_DebounceOneRequest ==
    /\ burst.requests <= 1
    /\ burst.requests = 1 => lastRequest = Trim(searchInputValue)

\* C4: a run of at least two events, the one before the last with a query
\* long enough to be searched for and other than the last, has triggered
\* its one request, for the last query.
C4_Witness ==
    /\ burst.keys >= 2
    /\ Len(burst.prevQuery) >= MinQueryLength
    /\ burst.prevQuery # Trim(searchInputValue)
    /\ burst.requests = 1
    /\ lastRequest = Trim(searchInputValue)

\* C17: an input event that leaves the field with a trimmed query of fewer
\* than 2 characters clears the quick-search results at once (the panel is
\* hidden or holds no result after the event), and every quick-search
\* request is for a query of at least 2 characters.
C17_ShortQueryClearsAtOnce ==
    [][ /\ \A v \in InputValues :
              (InputEvent(v) /\ Len(Trim(v)) < MinQueryLength) =>
                 searchResultsHidden' \/ searchResults'.items = {}
        /\ \A q \in quickLoads' \ quickLoads : Len(q) >= MinQueryLength
      ]_vars

\* C19: the blur of the field leaves the results panel as it is and starts
\* the grace delay of 200 ms; the panel is not hidden while a grace delay
\* is running, and it is hidden when the delay has elapsed.
C19_PanelVisibleDuringGrace ==
    [][ /\ Blur => /\ searchResultsHidden' = searchResultsHidden
                   /\ \E t \in blurTimers' : t.left = BlurDelay
        /\ (~searchResultsHidden /\ searchResultsHidden') =>
              \A t \in blurTimers : t.left = 0
        /\ \A t \in blurTimers : BlurFire(t) => t.left = 0 /\ searchResultsHidden'
      ]_vars

\* C31: the focus of the field shows the results panel, with what it held,
\* if the trimmed value of the field has at least 2 characters and leaves
\* the panel as it is otherwise; it issues no search request and sets no
\* timer.
C31_FocusReshowsQualifying ==
    [][Focus =>
          /\ searchResultsHidden' =
                (IF Len(Trim(searchInputValue)) >= 2 THEN FALSE ELSE searchResultsHidden)
          /\ UNCHANGED <<searchResults, quickLoads, lastRequest, debounceTimers>>]_vars

\* C31 witness: the panel is visible although no response was ever written
\* to it: the focus of the field, which holds a query of 2 characters or
\* more, has shown it.
C31_Witness ==
    /\ focused
    /\ ~searchResultsHidden
    /\ searchResults.q = <<>>
    /\ Len(Trim(searchInputValue)) >= 2

\* C33: while the panel is hidden, the field has not the focus and no
\* timer of a blur is pending (the blur has hidden the panel), the panel
\* stays hidden unless the field gets the focus (input events come to a
\* field that has the focus); a response does not show it.
C33_HiddenUntilFocusOrInput ==
    [][(searchResultsHidden /\ ~focused /\ blurTimers = {}) =>
          (searchResultsHidden' \/ focused')]_vars

\* C35: at most one debounce timer is pending, the one the latest input
\* event set, for the query the field holds.
C35_OneDebounceTimer ==
    /\ Cardinality(debounceTimers) <= 1
    /\ \A t \in debounceTimers : t.latest /\ t.q = Trim(searchInputValue)

\* C35 witness: a second input event came while the timer of the first,
\* for another query, was pending; the one pending timer is the new one.
C35_Witness ==
    /\ burst.keys = 2
    /\ burst.requests = 0
    /\ burst.prevQuery # Trim(searchInputValue)
    /\ debounceTimers =
          {[q |-> Trim(searchInputValue), left |-> DebounceDelay, latest |-> TRUE]}

(***************************************************************************)
(* Claims about the Enter key of the quick search (checked under SpecEnter)*)
(***************************************************************************)

\* C32: when no quick-search request is in flight (none is rejected in
\* these runs), the panel holds the results of the query requested last.
C32_LatestQueryDisplayed ==
    (quickLoads = {} /\ lastRequest # <<>>) => searchResults.q = lastRequest

\* C34: Enter with a query leaves no debounce timer pending; and once the
\* query is committed and the field left alone, no quick-search request is
\* issued and the panel is not shown.
C34_EnterCancelsDebounce ==
    [][/\ EnterKey => debounceTimers' = {}
       /\ (currentPage = "search" /\ ~focused
              /\ advancedQuery = Trim(searchInputValue)) =>
             (/\ quickLoads' \subseteq quickLoads
              /\ (searchResultsHidden => searchResultsHidden' \/ focused'))]_vars

\* C18: Enter in the quick-search field acts only on a non-empty trimmed
\* query; it then makes the search page the active page at once, whatever
\* debounce timer is pending, and issues exactly one advanced search
\* request, for that query, and no quick-search request; no other step of
\* the quick search shows the search page or issues an advanced search.
C18_EnterCommitsQuery ==
    [][ /\ EnterKey =>
              /\ Trim(searchInputValue) # <<>>
              /\ activePages' = {"search"}
              /\ currentPage' = "search"
              /\ advancedQuery' = Trim(searchInputValue)
              /\ \E l \in loads' : StartsOne(l) /\ l.kind = "advanced"
              /\ quickLoads' = quickLoads
        /\ (loads' # loads \/ activePages' # activePages
               \/ advancedQuery' # advancedQuery) => EnterKey
      ]_vars

\* C18 witness: Enter was pressed on the value "lo " less than 300 ms after
\* the latest input event: the search page is active and an advanced
\* search for "lo" is in flight while the debounce timer is still pending.
C18_Witness ==
    /\ searchInputValue = <<"l", "o", " ">>
    /\ advancedQuery = <<"l", "o">>
    /\ activePages = {"search"}
    /\ \E l \in loads : l.kind = "advanced"
    /\ \E t \in debounceTimers : t.left > 0 /\ t.latest

(***************************************************************************)
(* Claims about the excerpt (checked under SpecExcerpt)                    *)
(***************************************************************************)

\* C25: the excerpt of a body is its first 150 characters, followed by
\* "..." if and only if the body has more than 150 characters; so it has at
\* most 153 characters and, the ellipsis apart, is a prefix of the body.
C25_ExcerptIsPrefix ==
    renders.excerpt > 0 =>
       LET kept == IF Len(subject) <= 150 THEN Len(subject) ELSE 150
       IN  /\ Len(markup.excerpt) <= 153
           /\ Len(markup.excerpt) >= kept
           /\ \A k \in 1..kept : markup.excerpt[k] = subject[k]
           /\ Len(subject) <= 150 => Len(markup.excerpt) = kept
           /\ Len(subject) > 150 =>
                 /\ Len(markup.excerpt) = 153
                 /\ \A k \in 151..153 : markup.excerpt[k] = "."

\* C25 witness: the excerpt of a body of 151 characters has been made (150
\* characters and the ellipsis).
C25_Witness ==
    /\ renders.excerpt > 0
    /\ Len(subject) = 151
    /\ subject[150] = "a"
    /\ Len(markup.excerpt) = 153

(***************************************************************************)
(* Claims about the formatting of poems (checked under SpecPoem)           *)
(***************************************************************************)

\* The positions of x in a sequence, and the k-th smallest of a set of
\* positions.
Positions(seq, x) == {k \in 1..Len(seq) : seq[k] = x}
Nth(S, k) == CHOOSE m \in S : Cardinality({j \in S : j < m}) = k - 1

\* The k-th of the lines the newlines of a text separate.
LineOf(text, k) ==
    LET breaks == Positions(text, "\n")
        first == IF k = 1 THEN 1 ELSE Nth(breaks, k - 1) + 1
        last == IF k > Cardinality(breaks) THEN Len(text) ELSE Nth(breaks, k) - 1
    IN  SubSeq(text, first, last)

\* What the k-th paragraph of a markup holds.
ParagraphOf(out, k) ==
    SubSeq(out, Nth(Positions(out, "<p>"), k) + 1, Nth(Positions(out, "</p>"), k) - 1)

\* C27: the formatted poem has one paragraph per line, in the order of the
\* lines: a line that is not blank gives a paragraph holding the escaped
\* line, a blank line (empty or white space only) one holding "&nbsp;".
C27_PoemLineParagraphs ==
    renders.body > 0 =>
       LET lines == Cardinality(Positions(subject, "\n")) + 1
       IN  /\ Cardinality(Positions(markup.body, "<p>")) = lines
           /\ Cardinality(Positions(markup.body, "</p>")) = lines
           /\ \A k \in 1..lines :
                 ParagraphOf(markup.body, k) =
                    IF \A j \in 1..Len(LineOf(subject, k)) :
                          LineOf(subject, k)[j] \in WhiteSpace
                    THEN <<"&nbsp;">>
                    ELSE escapeHtml(LineOf(subject, k))

\* C27 witness: a poem of three lines, "<", " " and the empty line, has
\* been formatted.
C27_Witness ==
    /\ renders.body > 0
    /\ subject = <<"<", "\n", " ", "\n">>
    /\ markup.body = <<"<p>", "&lt;", "</p>", "<p>", "&nbsp;", "</p>",
                       "<p>", "&nbsp;", "</p>">>

(***************************************************************************)
(* Claims about the tag cloud (checked under SpecTags)                     *)
(***************************************************************************)

\* What loadTagCloud leaves in #tagCloud, empty before, for a response.
CloudFor(response) ==
    IF TagsOf(response).isArray THEN TagCloudMarkup(TagsOf(response).list) ELSE <<>>

\* C23: for a tag list L, the response L and the response {tags: L} leave
\* the same tag cloud: the one of the first 12 tags of L.
C23_TagShapesNormalized ==
    [][(LoadTagCloudResolve /\ subject.shape \in {"array", "object"}) =>
          /\ markup'.tagCloud = CloudFor([shape |-> "array", list |-> subject.list])
          /\ markup'.tagCloud = CloudFor([shape |-> "object", list |-> subject.list])
          /\ Cardinality(Positions(markup'.tagCloud, "</span>")) =
                Min(Len(subject.list), 12)]_vars

\* C23 witness: the tag cloud of a response {tags: L} with 13 tags has been
\* rendered.
C23_Witness ==
    /\ renders.tagCloud > 0
    /\ subject.shape = "object"
    /\ Len(subject.list) = 13
    /\ Cardinality(Positions(markup.tagCloud, "</span>")) = 12

(***************************************************************************)
(* Claims about cards and full views (checked under SpecItem)              *)
(***************************************************************************)

\* A markup has no < or > that comes from inserted text.
NoRawMarkup(out) == \A k \in 1..Len(out) : out[k] \notin {"<", ">"}

\* C21: no title, excerpt, body or tag name puts a < or > of its own into
\* the markup of a card or of a full view.
C21_FieldsEscaped ==
    /\ NoRawMarkup(markup.card)
    /\ NoRawMarkup(markup.view)

C38_StartupTerminates == <>(initPc = "done" /\ loadingScreen = "gone")

\* C38 witness: the loading screen is gone after a start-up in which the
\* statistics request and the tag-cloud request both failed, each after its
\* three attempts.
C38_Witness ==
    /\ initPc = "done"
    /\ loadingScreen = "gone"
    /\ startLog = <<"failed", "failed">>
    /\ calls[initCall].pc = "rejected"
    /\ Len(calls[initCall].log) = retryAttempts

====
